---- MODULE Spec2Model ----
(***************************************************************************)
(* A state-machine model of tiny-wasm-runtime's execution engine           *)
(* (src/src/execution): the Store, the operand stack, the call stack of    *)
(* frames and the fetch/execute loop of Runtime::execute, one action per   *)
(* instruction.  A Rust panic (index out of range, arithmetic overflow in  *)
(* a checked build, type mismatch) is the terminal phase "panicked".       *)
(***************************************************************************)
EXTENDS Integers, Sequences, FiniteSets, TLC

VARIABLES
    wasm,        \* the bytes handed to Module::new (empty when the module is
                 \* given as decoded)
    wasm_module, \* the decoded Module the Runtime is instantiated from
    funcs,       \* Store.funcs: sequence of FuncInst
    exports,     \* Store.module.exports: export name -> function index
    memories,    \* Store.memories: sequence of MemoryInst
    import,      \* Runtime.import: <<module, field>> -> host callable
    wasi,        \* Runtime.wasi: the WASI shim, with the bytes written to
                 \* each file of its file table
    stack,       \* Runtime.stack: operand stack, top at the end
    call_stack,  \* Runtime.call_stack: sequence of Frame, top at the end
    phase,       \* "image" (not decoded yet) | "decoded" (no Runtime yet) | "failed" (instantiate returned
                 \* Err) | "idle" | "executing" (inside execute) | "panicked"
    cur,         \* the call in flight: its name, args, saved arity, and the
                 \* depth of the call stack when it started (base)
    ret,         \* what the last call returned to the host
    inputs,      \* the argument vectors the host passes to call
    calls        \* how many times the host has called call

vars == <<wasm, wasm_module, funcs, exports, memories, import, wasi, stack, call_stack, phase, cur, ret,
          inputs, calls>>

-----------------------------------------------------------------------------
(* Bounds of the model *)

\* longest function body of the exhaustively generated modules
MaxBody == 3
\* how many times the host calls call on one Runtime
MaxCalls == 2
\* deepest call stack the model follows (caps recursion)
MaxDepth == 10
\* largest argument of fib
MaxFib == 10
\* most data segments of the generated data sections
MaxData == 2

(* Program constants *)
PAGE_SIZE == 65536
I32_MAX == 2147483647

-----------------------------------------------------------------------------
(* Values: execution/value.rs *)

I32(n) == [ty |-> "I32", v |-> n]
I64(n) == [ty |-> "I64", v |-> n]
NoValue == [ty |-> "none", v |-> 0]

I32_MIN == -I32_MAX - 1

\* an addition that stops at the ends of the i32 range instead of wrapping
saturating_add(a, b) ==
    IF a >= 0 /\ b > 0 /\ a > I32_MAX - b THEN I32_MAX
    ELSE IF a < 0 /\ b < 0 /\ a < I32_MIN - b THEN I32_MIN
    ELSE a + b

\* i32::wrapping_add, computed without leaving the 32-bit range
wrapping_add(a, b) ==
    IF a >= 0 /\ b > 0 /\ a > I32_MAX - b
    THEN ((a - I32_MAX) - 1) + ((b - I32_MAX) - 1)
    ELSE IF a < 0 /\ b < 0 /\ a < I32_MIN - b
    THEN ((a + I32_MAX) + 1) + ((b + I32_MAX) + 1)
    ELSE a + b

\* whether a - b leaves the i32 range
sub_overflows(a, b) ==
    \/ a >= 0 /\ b < 0 /\ a > I32_MAX + b
    \/ a < 0 /\ b > 0 /\ a < I32_MIN + b

\* i32::wrapping_sub
wrapping_sub(a, b) ==
    IF a >= 0 /\ b < 0 /\ a > I32_MAX + b
    THEN ((a - I32_MAX) - 1) - ((b + I32_MAX) + 1)
    ELSE IF a < 0 /\ b > 0 /\ a < I32_MIN + b
    THEN ((a + I32_MAX) + 1) - ((b - I32_MAX) - 1)
    ELSE a - b

\* the bytes of to_le_bytes in the opposite order, highest first: what a
\* big-endian store would write
to_be_bytes(v) ==
    LET w == IF v >= 0 THEN v ELSE (v + I32_MAX) + 1
        top == IF v >= 0 THEN 0 ELSE 128
    IN  << ((w \div 16777216) % 256) + top, (w \div 65536) % 256,
           (w \div 256) % 256, w % 256 >>

\* i32::to_le_bytes: the four bytes of the two's complement, lowest first
to_le_bytes(v) ==
    LET w == IF v >= 0 THEN v ELSE (v + I32_MAX) + 1
        top == IF v >= 0 THEN 0 ELSE 128
    IN  << w % 256, (w \div 256) % 256, (w \div 65536) % 256,
           ((w \div 16777216) % 256) + top >>

-----------------------------------------------------------------------------
(* Instructions: binary/instruction.rs.  a, b are the immediates. *)

Inst(op, a, b) == [op |-> op, a |-> a, b |-> b]
If == Inst("If", 0, 0)
End == Inst("End", 0, 0)
Return == Inst("Return", 0, 0)
CallI(idx) == Inst("Call", idx, 0)
LocalGet(idx) == Inst("LocalGet", idx, 0)
LocalSet(idx) == Inst("LocalSet", idx, 0)
I32Store(align, offset) == Inst("I32Store", align, offset)
I32Const(value) == Inst("I32Const", value, 0)
I32LtS == Inst("I32LtS", 0, 0)
I32Add == Inst("I32Add", 0, 0)
I32Sub == Inst("I32Sub", 0, 0)

-----------------------------------------------------------------------------
(* Store: execution/store.rs *)

InternalFuncInst(params, results, locals, body) ==
    [kind |-> "Internal", params |-> params, results |-> results,
     locals |-> locals, body |-> body, module |-> "", func |-> ""]

ExternalFuncInst(module, func, params, results) ==
    [kind |-> "External", params |-> params, results |-> results,
     locals |-> <<>>, body |-> <<>>, module |-> module, func |-> func]

NoBytes == [a \in {} |-> 0]

\* memory.limits.min * PAGE_SIZE is a product of u32: with min >= 65536 it
\* overflows (a build with overflow checks panics, one without wraps)
memory_overflows(min) == min >= 65536
memory_len(min) == (min % 65536) * PAGE_SIZE

\* MemoryInst.data is a Vec<u8> of len bytes, all zero at first; bytes holds
\* its non-zero bytes by address
MemoryInst(pages) == [len |-> memory_len(pages), bytes |-> NoBytes]

mem_read(m, a) == IF a \in DOMAIN m.bytes THEN m.bytes[a] ELSE 0

\* a write that leaves the Vec as long as the end of what it wrote
mem_write_resizes(m, at, bs) ==
    LET written == {at + i - 1 : i \in 1..Len(bs)}
        val(a) == IF a \in written THEN bs[a - at + 1] ELSE m.bytes[a]
        dom == {a \in DOMAIN m.bytes \cup written : val(a) # 0 /\ a < at + Len(bs)}
    IN  [len |-> at + Len(bs), bytes |-> [a \in dom |-> val(a)]]

\* data[at + i] = bs[i + 1] for every byte of bs, zero bytes kept out of bytes
mem_write(m, at, bs) ==
    LET written == {at + i - 1 : i \in 1..Len(bs)}
        val(a) == IF a \in written THEN bs[a - at + 1] ELSE m.bytes[a]
        dom == {a \in DOMAIN m.bytes \cup written : val(a) # 0}
    IN  [m EXCEPT !.bytes = [a \in dom |-> val(a)]]

-----------------------------------------------------------------------------
(* Value arithmetic: execution/value.rs.  st is "ok" or "panic". *)

value_add(l, r) ==
    IF l.ty # r.ty THEN [st |-> "panic", val |-> NoValue]
    ELSE IF l.ty = "I32" THEN [st |-> "ok", val |-> I32(wrapping_add(l.v, r.v))]
    ELSE [st |-> "ok", val |-> I64(l.v + r.v)]

\* left - right is a plain subtraction: on overflow a build with overflow
\* checks panics and a build without them wraps; st "either" marks that case
value_sub(l, r) ==
    IF l.ty # r.ty THEN [st |-> "panic", val |-> NoValue]
    ELSE IF l.ty = "I32"
    THEN [st |-> IF sub_overflows(l.v, r.v) THEN "either" ELSE "ok",
          val |-> I32(wrapping_sub(l.v, r.v))]
    ELSE [st |-> "ok", val |-> I64(l.v - r.v)]

\* a comparison that takes its operands in the opposite order
value_lt_swapped(l, r) ==
    IF l.ty # r.ty THEN [st |-> "panic", val |-> NoValue]
    ELSE [st |-> "ok", val |-> I32(IF r.v < l.v THEN 1 ELSE 0)]

value_lt(l, r) ==
    IF l.ty # r.ty THEN [st |-> "panic", val |-> NoValue]
    ELSE [st |-> "ok", val |-> I32(IF l.v < r.v THEN 1 ELSE 0)]

\* a zero of type i32 for every local
zero_of_i32(t) == I32(0)

\* the zero value of a declared local
zero_of(t) == IF t = "I32" THEN I32(0) ELSE I64(0)

-----------------------------------------------------------------------------
(* Helpers of execution/runtime.rs *)

Front(s) == SubSeq(s, 1, Len(s) - 1)
Last(s) == s[Len(s)]

\* an unwinding that pops and pushes the result but drains nothing
stack_unwind_no_drain(stk, sp, arity) ==
    IF arity > 0 /\ stk = <<>> THEN [st |-> "err", stack |-> stk]
    ELSE [st |-> "ok", stack |-> stk]

\* stack_unwind: st is "ok", "err" (no result to pop) or "panic" (drain(sp..)
\* with sp beyond the stack's length)
stack_unwind(stk, sp, arity) ==
    IF arity > 0
    THEN IF stk = <<>> THEN [st |-> "err", stack |-> stk]
         ELSE IF sp > Len(stk) - 1 THEN [st |-> "panic", stack |-> Front(stk)]
         ELSE [st |-> "ok", stack |-> Append(SubSeq(stk, 1, sp), Last(stk))]
    ELSE IF sp > Len(stk) THEN [st |-> "panic", stack |-> stk]
         ELSE [st |-> "ok", stack |-> SubSeq(stk, 1, sp)]

\* a scan that stops at the instruction after the If
get_end_address_next(insts, pc) == IF pc + 1 >= Len(insts) THEN -1 ELSE pc + 1

\* a scan that stops at the first End, whatever the depth
end_scan_first_end(insts, pc, depth) ==
    LET ends == {e \in (pc + 1)..(Len(insts) - 1) : insts[e + 1].op = "End"}
    IN  IF ends = {} THEN -1 ELSE CHOOSE e \in ends : \A x \in ends : e <= x

\* get_end_address: the position of the End matching the If at pc, -1 for the
\* error "not found instructions".  Positions count from 0 as in the source.
RECURSIVE end_scan(_, _, _)
end_scan(insts, pc, depth) ==
    LET p == pc + 1 IN
    IF p >= Len(insts) THEN -1
    ELSE IF insts[p + 1].op = "If" THEN end_scan(insts, p, depth + 1)
    ELSE IF insts[p + 1].op = "End"
         THEN IF depth = 0 THEN p ELSE end_scan(insts, p, depth - 1)
    ELSE end_scan(insts, p, depth)

get_end_address(insts, pc) == end_scan(insts, pc, 0)

\* a push_frame that copies the arguments into the locals and leaves them on
\* the operand stack
push_frame_keeps_args(stk, func) ==
    LET n == Len(func.params)
        bottom == Len(stk) - n
    IN  IF bottom < 0 THEN [st |-> "panic", stack |-> stk, frame |-> <<>>]
        ELSE [st |-> "ok",
              stack |-> stk,
              frame |-> [pc |-> -1,
                         sp |-> Len(stk),
                         insts |-> func.body,
                         arity |-> Len(func.results),
                         labels |-> <<>>,
                         locals |-> SubSeq(stk, bottom + 1, Len(stk))
                                    \o [i \in 1..Len(func.locals) |->
                                          zero_of(func.locals[i])]]]

\* push_frame: the top params.len() operands become the first locals; st is
\* "panic" when the stack holds fewer (the subtraction underflows, or
\* split_off gets a position beyond the length)
push_frame(stk, func) ==
    LET n == Len(func.params)
        bottom == Len(stk) - n
    IN  IF bottom < 0 THEN [st |-> "panic", stack |-> stk, frame |-> <<>>]
        ELSE [st |-> "ok",
              stack |-> SubSeq(stk, 1, bottom),
              frame |-> [pc |-> -1,
                         sp |-> bottom,
                         insts |-> func.body,
                         arity |-> Len(func.results),
                         labels |-> <<>>,
                         locals |-> SubSeq(stk, bottom + 1, Len(stk))
                                    \o [i \in 1..Len(func.locals) |->
                                          zero_of(func.locals[i])]]]

\* a cleanup that clears the operand stack only
cleanup_keeps_frames == [stack |-> <<>>, call_stack |-> call_stack]

\* cleanup: what an execution error leaves of the two stacks
cleanup == [stack |-> <<>>, call_stack |-> <<>>]

\* BlockType::result_count: the only block type is Empty
result_count(block_type) == 0

\* the label an If pushes: pc is the frame's pc after the If was handled
if_label(pc, sp) == [kind |-> "If", pc |-> pc, sp |-> sp, arity |-> result_count("Empty")]

\* the condition test of If: cond == Value::I32(0)
cond_is_zero(cond) == cond = I32(0)

-----------------------------------------------------------------------------
(* Results of call, as the host sees them *)

NoRet == [kind |-> "none", has |-> FALSE, val |-> NoValue, msg |-> "", cause |-> ""]
OkNone == [NoRet EXCEPT !.kind = "ok"]
OkSome(v) == [NoRet EXCEPT !.kind = "ok", !.has = TRUE, !.val = v]
Err(msg, cause) == [NoRet EXCEPT !.kind = "err", !.msg = msg, !.cause = cause]
Panicked == [NoRet EXCEPT !.kind = "panic"]

NoCall == [name |-> "", args |-> <<>>, arity |-> 0, target |-> "none", base |-> 0]

-----------------------------------------------------------------------------
(* The WASI shim: execution/wasi.rs.  A file of the file table is modelled   *)
(* by the bytes written to it so far, and File::write by a write that takes  *)
(* the whole buffer.  The results carry st ("ok", "err" or "panic"), the     *)
(* memories and the shim after the call.                                     *)

NoWasi == [present |-> FALSE, file_table |-> <<>>]

\* WasiSnapshotPreview1::new(): the files of the descriptors 0, 1 and 2
WasiSnapshotPreview1 == [present |-> TRUE, file_table |-> <<<<>>, <<>>, <<>>>>]

\* size_of::<usize>() of the target the runtime is built for
UsizeLens == {4, 8}

\* a read that takes the four bytes highest first
memory_read_be(m, start) ==
    IF start < 0 \/ start > m.len - 4 THEN [st |-> "panic", val |-> 0]
    ELSE LET b1 == mem_read(m, start) IN
         [st |-> "ok",
          val |-> mem_read(m, start + 3) + 256 * mem_read(m, start + 2)
                  + 65536 * mem_read(m, start + 1)
                  + 16777216 * (IF b1 >= 128 THEN b1 - 256 ELSE b1)]

\* memory_read: the i32 in buf[start..start + 4]; an index out of the
\* buffer panics.  start is an i32 cast to usize: a negative one is beyond
\* every buffer.
memory_read(m, start) ==
    IF start < 0 \/ start > m.len - 4 THEN [st |-> "panic", val |-> 0]
    ELSE LET b4 == mem_read(m, start + 3) IN
         [st |-> "ok",
          val |-> mem_read(m, start) + 256 * mem_read(m, start + 1)
                  + 65536 * mem_read(m, start + 2)
                  + 16777216 * (IF b4 >= 128 THEN b4 - 256 ELSE b4)]

\* memory_write: buf[start..start + data.len()].copy_from_slice(data)
memory_write(m, start, data) ==
    IF start < 0 \/ start > m.len - Len(data) THEN [st |-> "panic", memory |-> m]
    ELSE [st |-> "ok", memory |-> mem_write(m, start, data)]

\* usize::to_le_bytes of a count below 2^31
usize_to_le_bytes(n, usize_len) ==
    [i \in 1..usize_len |-> IF i <= 4 THEN to_le_bytes(n)[i] ELSE 0]

\* the loop of fd_write over the n iovec records that are left from iovs on:
\* file is the file after the writes, nwritten the count of bytes
RECURSIVE write_iovs(_, _, _, _, _)
write_iovs(m, iovs, n, file, nwritten) ==
    IF n <= 0 THEN [st |-> "ok", file |-> file, nwritten |-> nwritten]
    ELSE LET start == memory_read(m, iovs)
             len == memory_read(m, iovs + 4)
         IN  IF start.st = "panic" \/ len.st = "panic"
             THEN [st |-> "panic", file |-> file, nwritten |-> nwritten]
             ELSE IF \/ start.val < 0 \/ len.val < 0
                     \/ start.val > m.len \/ len.val > m.len - start.val
             THEN \* start + len overflows or memory.data[start..end] panics
                  [st |-> "panic", file |-> file, nwritten |-> nwritten]
             ELSE write_iovs(m, iovs + 8, n - 1,
                             file \o [i \in 1..len.val |->
                                         mem_read(m, start.val + i - 1)],
                             nwritten + len.val)

fd_write(w, mems, args, usize_len) ==
    LET out(st, has, val, msg, ms, w2) ==
            [st |-> st, has |-> has, val |-> val, msg |-> msg,
             memories |-> ms, wasi |-> w2]
    IN  IF (\E i \in 1..Len(args) : args[i].ty # "I32") \/ Len(args) < 4
        THEN out("panic", FALSE, NoValue, "", mems, w)
        ELSE LET fd == args[1].v
                 iovs == args[2].v
                 iovs_len == args[3].v
                 rp == args[4].v
             IN  IF fd < 0 \/ fd >= Len(w.file_table)
                 THEN out("err", FALSE, NoValue, "not found fd", mems, w)
                 ELSE IF mems = <<>>
                 THEN out("err", FALSE, NoValue, "not found memory", mems, w)
                 ELSE LET r == write_iovs(mems[1], iovs, iovs_len,
                                          w.file_table[fd + 1], 0)
                          w2 == [w EXCEPT !.file_table[fd + 1] = r.file]
                          mw == memory_write(mems[1], rp,
                                             usize_to_le_bytes(r.nwritten, usize_len))
                      IN  IF r.st = "panic" \/ mw.st = "panic"
                          THEN out("panic", FALSE, NoValue, "", mems, w2)
                          ELSE out("ok", TRUE, I32(0), "",
                                   [mems EXCEPT ![1] = mw.memory], w2)

\* WasiSnapshotPreview1::invoke: every function but fd_write is unimplemented!
invoke(w, mems, func, args, usize_len) ==
    IF func = "fd_write" THEN fd_write(w, mems, args, usize_len)
    ELSE [st |-> "panic", has |-> FALSE, val |-> NoValue, msg |-> "",
          memories |-> mems, wasi |-> w]

-----------------------------------------------------------------------------
(* Host callables registered with add_import.  "double" is the closure of   *)
(* tests::call_imported_func, "none" the one of tests::not_found_imported_  *)
(* func, "first" a callable that returns its first argument, "fail" a       *)
(* callable that returns Err.                                               *)

Callables == {"double", "first", "none", "fail"}

\* callables none of which returns Err
host_call_never_fails(callable, args) ==
    IF callable = "first" /\ args # <<>>
    THEN [st |-> "ok", has |-> TRUE, val |-> args[1]]
    ELSE [st |-> "ok", has |-> FALSE, val |-> NoValue]

\* st is "ok", "err" or "panic"
host_call(callable, args) ==
    IF callable = "double"
    THEN IF args = <<>> THEN [st |-> "panic", has |-> FALSE, val |-> NoValue]
         ELSE [st |-> value_add(args[1], args[1]).st, has |-> TRUE,
               val |-> value_add(args[1], args[1]).val]
    ELSE IF callable = "first"
    THEN IF args = <<>> THEN [st |-> "panic", has |-> FALSE, val |-> NoValue]
         ELSE [st |-> "ok", has |-> TRUE, val |-> args[1]]
    ELSE IF callable = "none" THEN [st |-> "ok", has |-> FALSE, val |-> NoValue]
    ELSE [st |-> "err", has |-> FALSE, val |-> NoValue]

\* the elements from position at on, last pushed first
split_off_reversed(stk, at) == [i \in 1..(Len(stk) - at) |-> stk[Len(stk) + 1 - i]]

\* Vec::split_off(at): the elements from position at (counted from 0) on
split_off(stk, at) == SubSeq(stk, at + 1, Len(stk))

\* invoke_external: splits the arguments off the stack and calls the shim,
\* when there is one and the function is of wasi_snapshot_preview1, or else
\* the callable registered under (func.module, func.func).  mems and w are
\* the memories and the shim before the call; the callables of the model
\* leave the Store alone.
invoke_external(stk, func, imp, mems, w, usize_len) ==
    LET n == Len(func.params)
        rest == SubSeq(stk, 1, Len(stk) - n)
        args == split_off(stk, Len(stk) - n)
        same(st, has, val, msg) ==
            [st |-> st, stack |-> rest, has |-> has, val |-> val, msg |-> msg,
             memories |-> mems, wasi |-> w]
    IN  IF Len(stk) < n
        THEN [st |-> "panic", stack |-> stk, has |-> FALSE, val |-> NoValue,
              msg |-> "", memories |-> mems, wasi |-> w]
        ELSE IF func.module = "wasi_snapshot_preview1" /\ w.present
        THEN LET r == invoke(w, mems, func.func, args, usize_len)
             IN  [st |-> r.st, stack |-> rest, has |-> r.has, val |-> r.val,
                  msg |-> r.msg, memories |-> r.memories, wasi |-> r.wasi]
        ELSE IF func.module \notin DOMAIN imp
        THEN same("err", FALSE, NoValue, "not found module")
        ELSE IF func.func \notin DOMAIN imp[func.module]
        THEN same("err", FALSE, NoValue, "not found function")
        ELSE LET r == host_call(imp[func.module][func.func], args)
             IN  same(r.st, r.has, r.val, IF r.st = "err" THEN "host error" ELSE "")

-----------------------------------------------------------------------------
(* The modules the runtime is instantiated with: the sections of           *)
(* binary/module.rs Module, and the argument vectors the host passes to     *)
(* call on it.  The catalog below writes a module as a text module does, by *)
(* its functions and its exports, and ModuleWithData lays the sections out.  *)

\* Option<Vec<_>>: a section of the module is absent or holds its items
None == [some |-> FALSE, v |-> <<>>]
Some(v) == [some |-> TRUE, v |-> v]

\* binary/types.rs and binary/section.rs
FuncType(params, results) == [params |-> params, results |-> results]
Import(module_name, field, type_idx) ==
    [module |-> module_name, field |-> field, desc |-> type_idx]
ExportFunc(name, idx) == [name |-> name, desc |-> idx]
FunctionLocal(type_count, value_type) ==
    [type_count |-> type_count, value_type |-> value_type]
Function(locals, code) == [locals |-> locals, code |-> code]

\* Module { .. }, and the argument vectors of the host
Sections(types, imports, functions, code, exps, mems, data, ins) ==
    [magic |-> "\\0asm", version |-> 1,
     type_section |-> types, import_section |-> imports,
     function_section |-> functions, code_section |-> code,
     export_section |-> exps, memory_section |-> mems,
     data_section |-> data, inputs |-> ins]

\* binary/types.rs: Memory { limits: Limits { min, .. } } and
\* Data { memory_index, offset, init }
Memory(min) == [min |-> min]
Data(memory_index, offset, init) ==
    [memory_index |-> memory_index, offset |-> offset, init |-> init]

-----------------------------------------------------------------------------
(* The decoder: binary/module.rs.  A parser takes the input bytes and       *)
(* answers with st "ok", the value v and the bytes left, with st "err" (a   *)
(* nom error, which `?` hands on to the caller) or with st "panic".         *)

Parsed(v, rest) == [st |-> "ok", v |-> v, rest |-> rest]
Stopped(st) == [st |-> st, v |-> <<>>, rest |-> <<>>]

\* `let (rest, v) = parser(input)?;` followed by K
and_then(r, K(_, _)) == IF r.st = "ok" THEN K(r.v, r.rest) ELSE r

le_u8(input) ==
    IF input = <<>> THEN Stopped("err") ELSE Parsed(Head(input), Tail(input))

take(size, input) ==
    IF Len(input) < size THEN Stopped("err")
    ELSE Parsed(SubSeq(input, 1, size), SubSeq(input, size + 1, Len(input)))

\* a tag that leaves the magic bytes in the input
tag_magic_keeps_input(input) ==
    IF Len(input) >= 4 /\ SubSeq(input, 1, 4) = <<0, 97, 115, 109>>
    THEN Parsed(<<>>, input) ELSE Stopped("err")

\* tag(b"\0asm")
tag_magic(input) ==
    IF Len(input) >= 4 /\ SubSeq(input, 1, 4) = <<0, 97, 115, 109>>
    THEN Parsed(<<>>, SubSeq(input, 5, Len(input))) ELSE Stopped("err")

\* le_u32
le_u32(input) ==
    IF Len(input) < 4 THEN Stopped("err")
    ELSE Parsed(input[1] + 256 * (input[2] + 256 * (input[3] + 256 * input[4])),
                SubSeq(input, 5, Len(input)))

\* LEB128: seven bits a byte, the lowest first, the last byte is the one
\* below 128; n counts the bytes read, neg tells the sign bit of the last
RECURSIVE leb128(_, _, _)
leb128(input, n, acc) ==
    IF input = <<>> \/ n = 5 THEN Stopped("err")
    ELSE LET byte == Head(input)
             sum == acc + (byte % 128) * 128 ^ n
         IN  IF byte < 128
             THEN Parsed([v |-> sum, n |-> n + 1, neg |-> byte >= 64], Tail(input))
             ELSE leb128(Tail(input), n + 1, sum)

leb128_u32(input) ==
    and_then(leb128(input, 0, 0), LAMBDA x, rest : Parsed(x.v, rest))

leb128_i32(input) ==
    and_then(leb128(input, 0, 0), LAMBDA x, rest :
        Parsed(IF x.neg /\ x.n < 5 THEN x.v - 128 ^ x.n ELSE x.v, rest))

\* String::from_utf8_lossy on the names of the catalog
utf8 == [n \in {"", "a", "env", "add"} |->
            IF n = "a" THEN <<97>>
            ELSE IF n = "env" THEN <<101, 110, 118>>
            ELSE IF n = "add" THEN <<97, 100, 100>> ELSE <<>>]

from_utf8_lossy(name) ==
    IF \E n \in DOMAIN utf8 : utf8[n] = name
    THEN CHOOSE n \in DOMAIN utf8 : utf8[n] = name ELSE "?"

decode_name(input) ==
    and_then(leb128_u32(input), LAMBDA size, r1 :
    and_then(take(size, r1), LAMBDA name, r2 :
        Parsed(from_utf8_lossy(name), r2)))

\* binary/opcode.rs: Opcode::from_u8
Opcodes == {4, 11, 15, 16, 32, 33, 54, 65, 72, 106, 107}

\* impl From<u8> for ValueType, on each byte of types: panics on a byte that
\* is no value type
value_types(types) ==
    IF \E k \in 1..Len(types) : types[k] \notin {127, 126} THEN Stopped("panic")
    ELSE Parsed([k \in 1..Len(types) |-> IF types[k] = 127 THEN "I32" ELSE "I64"],
                <<>>)

decode_limits(input) ==
    and_then(leb128_u32(input), LAMBDA limits, r1 :
    and_then(leb128_u32(r1), LAMBDA min, r2 :
        IF limits = 0 THEN Parsed(min, <<>>)
        ELSE and_then(leb128_u32(r2), LAMBDA max, r3 : Parsed(min, <<>>))))

decode_memory_section(input) ==
    and_then(leb128_u32(input), LAMBDA count, r1 :
    and_then(decode_limits(r1), LAMBDA min, r2 : Parsed(Memory(min), <<>>)))

decode_expr(input) ==
    and_then(le_u8(input), LAMBDA byte, r1 :
        IF byte # 65 THEN Stopped("panic")
        ELSE and_then(leb128_i32(r1), LAMBDA value, r2 :
             and_then(le_u8(r2), LAMBDA end, r3 : Parsed(value, r3))))

decode_block(input) ==
    and_then(le_u8(input), LAMBDA byte, r1 :
        IF byte = 64 THEN Parsed(<<>>, r1) ELSE Stopped("panic"))

decode_instructions(input) ==
    and_then(le_u8(input), LAMBDA byte, r1 :
        IF byte \notin Opcodes THEN Stopped("panic")
        ELSE IF byte = 4
        THEN and_then(decode_block(r1), LAMBDA block, r2 : Parsed(If, r2))
        ELSE IF byte = 11 THEN Parsed(End, r1)
        ELSE IF byte = 15 THEN Parsed(Return, r1)
        ELSE IF byte = 16
        THEN and_then(leb128_u32(r1), LAMBDA idx, r2 : Parsed(CallI(idx), r2))
        ELSE IF byte = 32
        THEN and_then(leb128_u32(r1), LAMBDA idx, r2 : Parsed(LocalGet(idx), r2))
        ELSE IF byte = 33
        THEN and_then(leb128_u32(r1), LAMBDA idx, r2 : Parsed(LocalSet(idx), r2))
        ELSE IF byte = 54
        THEN and_then(leb128_u32(r1), LAMBDA align, r2 :
             and_then(leb128_u32(r2), LAMBDA offset, r3 :
                 Parsed(I32Store(align, offset), r3)))
        ELSE IF byte = 65
        THEN and_then(leb128_i32(r1), LAMBDA value, r2 : Parsed(I32Const(value), r2))
        ELSE IF byte = 72 THEN Parsed(I32LtS, r1)
        ELSE IF byte = 106 THEN Parsed(I32Add, r1)
        ELSE Parsed(I32Sub, r1))

\* The loops of the section decoders: `count` items of one kind, or, for the
\* instructions of a function body, items until the input is used up
\* (count -1).  decode_item is the body of the loop.
RECURSIVE decode_items(_, _, _, _)
RECURSIVE decode_item(_, _)

decode_items(kind, count, input, acc) ==
    IF count = 0 \/ (count < 0 /\ input = <<>>) THEN Parsed(acc, input)
    ELSE and_then(decode_item(kind, input), LAMBDA item, rest :
             decode_items(kind, IF count < 0 THEN count ELSE count - 1, rest,
                          Append(acc, item)))

\* decode_type_section, decode_function_section, decode_import_section,
\* decode_export_section, decode_data_section and decode_code_section:
\* `let (input, count) = leb128_u32(input)?; for _ in 0..count { .. }`, and
\* no rest
decode_vec(kind, input) ==
    and_then(leb128_u32(input), LAMBDA count, r1 :
    and_then(decode_items(kind, count, r1, <<>>), LAMBDA items, r2 :
        Parsed(items, <<>>)))

decode_function_body(input) ==
    and_then(leb128_u32(input), LAMBDA count, r1 :
    and_then(decode_items("local", count, r1, <<>>), LAMBDA locals, r2 :
    and_then(decode_items("instruction", -1, r2, <<>>), LAMBDA code, r3 :
        Parsed(Function(locals, code), <<>>))))

decode_item(kind, input) ==
    IF kind = "type"
    THEN and_then(le_u8(input), LAMBDA form, r1 :
         and_then(leb128_u32(r1), LAMBDA psize, r2 :
         and_then(take(psize, r2), LAMBDA ptypes, r3 :
         and_then(value_types(ptypes), LAMBDA params, r4 :
         and_then(leb128_u32(r3), LAMBDA rsize, r5 :
         and_then(take(rsize, r5), LAMBDA rtypes, r6 :
         and_then(value_types(rtypes), LAMBDA results, r7 :
             Parsed(FuncType(params, results), r6))))))))
    ELSE IF kind = "function" THEN leb128_u32(input)
    ELSE IF kind = "import"
    THEN and_then(decode_name(input), LAMBDA module_name, r1 :
         and_then(decode_name(r1), LAMBDA field, r2 :
         and_then(le_u8(r2), LAMBDA import_kind, r3 :
             IF import_kind # 0 THEN Stopped("panic")
             ELSE and_then(leb128_u32(r3), LAMBDA idx, r4 :
                      Parsed(Import(module_name, field, idx), r4)))))
    ELSE IF kind = "export"
    THEN and_then(decode_name(input), LAMBDA name, r1 :
         and_then(le_u8(r1), LAMBDA export_kind, r2 :
         and_then(leb128_u32(r2), LAMBDA idx, r3 :
             IF export_kind # 0 THEN Stopped("panic")
             ELSE Parsed(ExportFunc(name, idx), r3))))
    ELSE IF kind = "data"
    THEN and_then(leb128_u32(input), LAMBDA memory_idx, r1 :
         and_then(decode_expr(r1), LAMBDA offset, r2 :
         and_then(leb128_u32(r2), LAMBDA size, r3 :
         and_then(take(size, r3), LAMBDA init, r4 :
             Parsed(Data(memory_idx, offset, init), r4)))))
    ELSE IF kind = "code"
    THEN and_then(leb128_u32(input), LAMBDA size, r1 :
         and_then(take(size, r1), LAMBDA body, r2 :
         and_then(decode_function_body(body), LAMBDA func, r3 :
             Parsed(func, r2))))
    ELSE IF kind = "local"
    THEN and_then(leb128_u32(input), LAMBDA type_count, r1 :
         and_then(le_u8(r1), LAMBDA value_type, r2 :
         and_then(value_types(<<value_type>>), LAMBDA t, r3 :
             Parsed(FunctionLocal(type_count, t[1]), r2))))
    ELSE decode_instructions(input)

\* binary/section.rs: SectionCode::from_u8 knows the codes 0x00 .. 0x0b
decode_section_header(input) ==
    and_then(le_u8(input), LAMBDA code, r1 :
    and_then(leb128_u32(r1), LAMBDA size, r2 :
        IF code > 11 THEN Stopped("panic")
        ELSE Parsed([code |-> code, size |-> size], r2)))

\* Module::default(); a module decoded from bytes comes with no argument
\* vectors of the host
default_module == Sections(None, None, None, None, None, None, None, {})

\* Module::decode, the loop over the sections
RECURSIVE decode_sections(_, _)
decode_sections(remaining, m) ==
    IF remaining = <<>> THEN Parsed(m, remaining)
    ELSE and_then(decode_section_header(remaining), LAMBDA header, r1 :
         and_then(take(header.size, r1), LAMBDA section_contents, rest :
             LET with ==
                     IF header.code = 5
                     THEN and_then(decode_memory_section(section_contents),
                              LAMBDA memory, r : Parsed(
                                  [m EXCEPT !.memory_section = Some(<<memory>>)], r))
                     ELSE IF header.code = 1
                     THEN and_then(decode_vec("type", section_contents),
                              LAMBDA func_types, r : Parsed(
                                  [m EXCEPT !.type_section = Some(func_types)], r))
                     ELSE IF header.code = 3
                     THEN and_then(decode_vec("function", section_contents),
                              LAMBDA func_idx_list, r : Parsed(
                                  [m EXCEPT !.function_section = Some(func_idx_list)], r))
                     ELSE IF header.code = 2
                     THEN and_then(decode_vec("import", section_contents),
                              LAMBDA imports, r : Parsed(
                                  [m EXCEPT !.import_section = Some(imports)], r))
                     ELSE IF header.code = 7
                     THEN and_then(decode_vec("export", section_contents),
                              LAMBDA exps, r : Parsed(
                                  [m EXCEPT !.export_section = Some(exps)], r))
                     ELSE IF header.code = 11
                     THEN and_then(decode_vec("data", section_contents),
                              LAMBDA data, r : Parsed(
                                  [m EXCEPT !.data_section = Some(data)], r))
                     ELSE IF header.code = 10
                     THEN and_then(decode_vec("code", section_contents),
                              LAMBDA fs, r : Parsed(
                                  [m EXCEPT !.code_section = Some(fs)], r))
                     ELSE Parsed(m, <<>>)
             IN  and_then(with, LAMBDA m2, r : decode_sections(rest, m2))))

\* Module::decode
decode(input) ==
    and_then(tag_magic(input), LAMBDA magic, r1 :
    and_then(le_u32(r1), LAMBDA version, r2 :
        decode_sections(r2, [default_module EXCEPT !.version = version])))

-----------------------------------------------------------------------------
(* The catalog of modules *)

\* a text module with no item of a kind has no section of that kind
section(v) == IF v = <<>> THEN None ELSE Some(v)

\* the names of the export table ex, in some order
export_names(ex) ==
    CHOOSE names \in [1..Cardinality(DOMAIN ex) -> DOMAIN ex] :
        \A i, j \in DOMAIN names : i # j => names[i] # names[j]

\* The module whose functions are fs (the imports, then the defined
\* functions) and whose exports are ex: function i has type i, every
\* declared local is a group of its own.
ModuleWithData(fs, ex, mems, data, ins) ==
    LET imports == SelectSeq(fs, LAMBDA f : f.kind = "External")
        defined == SelectSeq(fs, LAMBDA f : f.kind = "Internal")
        names == export_names(ex)
    IN  Sections(
            section([i \in 1..Len(fs) |-> FuncType(fs[i].params, fs[i].results)]),
            section([i \in 1..Len(imports) |->
                        Import(imports[i].module, imports[i].func, i - 1)]),
            section([i \in 1..Len(defined) |-> Len(imports) + i - 1]),
            section([i \in 1..Len(defined) |->
                        Function([k \in 1..Len(defined[i].locals) |->
                                     FunctionLocal(1, defined[i].locals[k])],
                                 defined[i].body)]),
            section([i \in 1..Len(names) |-> ExportFunc(names[i], ex[names[i]])]),
            section(mems), section(data), ins)

Module(fs, ex, mems, ins) == ModuleWithData(fs, ex, mems, <<>>, ins)

NoExports == [n \in {} |-> 0]
Export(name, idx) == [n \in {name} |-> idx]

i32 == "I32"
i64 == "I64"

\* func $double (param i32) (result i32): local.get 0; local.get 0; i32.add
double == InternalFuncInst(<<i32>>, <<i32>>, <<>>,
                           <<LocalGet(0), LocalGet(0), I32Add, End>>)

\* Every body of at most MaxBody instructions over this alphabet is the body
\* of an exported function "main", once as () -> () and once as
\* (i32) -> (i32), in a module with one page of memory and $double as
\* function 1.
Alphabet == {If, End, Return, I32Const(0), I32Const(1), LocalGet(0),
             CallI(1), I32Store(2, 0)}

Bodies == UNION {[1..k -> Alphabet] : k \in 0..MaxBody}

Signatures == {<<(<<>>), (<<>>)>>, <<(<<i32>>), (<<i32>>)>>}

ShortInputs == {<<>>, <<I32(0)>>, <<I32(1)>>, <<I32(1), I32(1)>>}

GeneratedModules ==
    {Module(<<InternalFuncInst(sig[1], sig[2], <<>>, body), double>>,
            Export("main", 0), <<Memory(1)>>, ShortInputs) :
        sig \in Signatures, body \in Bodies}

(* The fixtures of the repository's tests (src/fixtures/*.wat as decoded in *)
(* the tests of binary/module.rs and called in those of runtime.rs), and    *)
(* modules built on them for the boundary cases.                            *)

\* 0x01020304: four different bytes
Word == 4 + 256 * (3 + 256 * (2 + 256 * 1))

\* func_add.wat
func_add ==
    Module(<<InternalFuncInst(<<i32, i32>>, <<i32>>, <<>>,
                              <<LocalGet(0), LocalGet(1), I32Add, End>>)>>,
           Export("add", 0), <<>>,
           {<<I32(2), I32(3)>>, <<I32(10), I32(5)>>, <<I32(1), I32(1)>>,
            <<I32(I32_MAX), I32(1)>>, <<I32(I32_MIN), I32(-1)>>,
            <<I32(1)>>, <<I32(1), I64(1)>>})

\* func_sub.wat
func_sub ==
    Module(<<InternalFuncInst(<<i32, i32>>, <<i32>>, <<>>,
                              <<LocalGet(0), LocalGet(1), I32Sub, End>>)>>,
           Export("sub", 0), <<>>,
           {<<I32(10), I32(5)>>, <<I32(5), I32(10)>>, <<I32(I32_MIN), I32(1)>>,
            <<I32(0), I32(I32_MIN)>>, <<I32(I32_MAX), I32(-1)>>})

\* func_lts.wat
func_lts ==
    Module(<<InternalFuncInst(<<i32, i32>>, <<i32>>, <<>>,
                              <<LocalGet(0), LocalGet(1), I32LtS, End>>)>>,
           Export("lts", 0), <<>>,
           {<<I32(10), I32(5)>>, <<I32(5), I32(10)>>, <<I32(-1), I32(0)>>,
            <<I32(3), I32(3)>>, <<I32(I32_MIN), I32(I32_MAX)>>})

\* func_call.wat
func_call ==
    Module(<<InternalFuncInst(<<i32>>, <<i32>>, <<>>,
                              <<LocalGet(0), CallI(1), End>>),
             double>>,
           Export("call_doubler", 0), <<>>,
           {<<I32(2)>>, <<I32(10)>>, <<I32(1)>>, <<I32(I32_MAX)>>, <<I32(-1)>>})

\* import.wat, and the same module exporting the imported function too
import_wat(ex) ==
    Module(<<ExternalFuncInst("env", "add", <<i32>>, <<i32>>),
             InternalFuncInst(<<i32>>, <<i32>>, <<>>,
                              <<LocalGet(0), CallI(0), End>>)>>,
           ex, <<>>, {<<I32(2)>>, <<I32(10)>>, <<I32(1)>>, <<>>})

\* import.wat with an imported function of two parameters
import_two ==
    Module(<<ExternalFuncInst("env", "add", <<i32, i32>>, <<i32>>),
             InternalFuncInst(<<i32, i32>>, <<i32>>, <<>>,
                              <<LocalGet(0), LocalGet(1), CallI(0), End>>)>>,
           Export("call_add", 1), <<>>, {<<I32(5), I32(3)>>})

\* i32_const.wat
i32_const ==
    Module(<<InternalFuncInst(<<>>, <<i32>>, <<>>, <<I32Const(42), End>>)>>,
           Export("i32_const", 0), <<>>, {<<>>})

\* local_set.wat
local_set ==
    Module(<<InternalFuncInst(<<>>, <<i32>>, <<i32>>,
                              <<I32Const(42), LocalSet(0), LocalGet(0), End>>)>>,
           Export("local_set", 0), <<>>, {<<>>})

\* i32_store.wat
i32_store ==
    Module(<<InternalFuncInst(<<>>, <<>>, <<>>,
                              <<I32Const(0), I32Const(42), I32Store(2, 0), End>>)>>,
           Export("i32_store", 0), <<Memory(1)>>, {<<>>})

\* fib.wat
fib ==
    Module(<<InternalFuncInst(<<i32>>, <<i32>>, <<>>,
               <<LocalGet(0), I32Const(2), I32LtS, If, I32Const(1), Return, End,
                 LocalGet(0), I32Const(2), I32Sub, CallI(0),
                 LocalGet(0), I32Const(1), I32Sub, CallI(0),
                 I32Add, Return, End>>)>>,
           Export("fib", 0), <<>>,
           {<<I32(1)>>, <<I32(2)>>, <<I32(3)>>, <<I32(4)>>})

\* func_param_result.wat with its function exported: two results
func_param_result ==
    Module(<<InternalFuncInst(<<i32, i32>>, <<i32, i32>>, <<>>,
                              <<LocalGet(0), LocalGet(1), End>>)>>,
           Export("pair", 0), <<>>, {<<I32(1), I32(2)>>})

\* (func (param i32 i32) local.get 0; local.get 1; i32.store offset=off),
\* called with the addresses around both ends of the memory
StoreAddrs == {0, 1, PAGE_SIZE - 8, PAGE_SIZE - 5, PAGE_SIZE - 4, PAGE_SIZE - 3,
               PAGE_SIZE, -1, -4, -8}
StoreValues == {42, Word, -2}

store_at(off, mems) ==
    Module(<<InternalFuncInst(<<i32, i32>>, <<>>, <<>>,
                              <<LocalGet(0), LocalGet(1), I32Store(2, off), End>>)>>,
           Export("store_at", 0), mems,
           {<<I32(a), I32(v)>> : a \in StoreAddrs, v \in StoreValues}
           \cup {<<I64(0), I32(1)>>, <<I32(0), I64(1)>>})

\* two stores, the second one failing when the argument is out of range
store_twice ==
    Module(<<InternalFuncInst(<<i32>>, <<>>, <<>>,
               <<I32Const(8), I32Const(Word), I32Store(2, 0),
                 LocalGet(0), I32Const(-2), I32Store(0, 0), End>>)>>,
           Export("store_twice", 0), <<Memory(1)>>,
           {<<I32(8)>>, <<I32(10)>>, <<I32(PAGE_SIZE)>>, <<>>})

\* an if block with a store in its then-branch and a store after it
if_store ==
    Module(<<InternalFuncInst(<<i32>>, <<>>, <<>>,
               <<LocalGet(0), If, I32Const(0), I32Const(42), I32Store(2, 0), End,
                 I32Const(4), I32Const(1), I32Store(2, 0), End>>)>>,
           Export("if_store", 0), <<Memory(1)>>, {<<I32(0)>>, <<I32(1)>>})

\* Return inside two and three nested if blocks, in a callee whose caller
\* holds an operand and an open if block of its own
nested_return ==
    Module(<<InternalFuncInst(<<i32, i32>>, <<i32>>, <<>>,
               <<I32Const(3), I32Const(1), If, LocalGet(0), LocalGet(1), CallI(1),
                 Return, End, I32Const(4), End>>),
             InternalFuncInst(<<i32, i32>>, <<i32>>, <<>>,
               <<LocalGet(0), If, I32Const(5), LocalGet(1), If, I32Const(7),
                 Return, End, End, I32Const(9), End>>),
             InternalFuncInst(<<i32, i32>>, <<>>, <<>>,
               <<I32Const(6), LocalGet(0), If, I32Const(1), If, LocalGet(1), If,
                 I32Const(8), Return, End, End, End, CallI(3), End>>),
             InternalFuncInst(<<>>, <<>>, <<>>, <<End>>)>>,
           [n \in {"outer", "inner", "deep"} |->
               IF n = "outer" THEN 0 ELSE IF n = "inner" THEN 1 ELSE 2],
           <<>>,
           {<<I32(0), I32(0)>>, <<I32(1), I32(0)>>, <<I32(0), I32(1)>>,
            <<I32(1), I32(1)>>})

\* a memory and nothing else; the empty module; an export of a function
\* index that is not in funcs
memory_only == Module(<<>>, NoExports, <<Memory(1)>>, {<<>>, <<I32(1)>>})
empty_module == Module(<<>>, NoExports, <<>>, {<<>>, <<I32(1)>>})
bad_export == Module(<<double>>, Export("bad", 3), <<>>, {<<>>, <<I32(1)>>})

\* "Hello, World!\n"
HelloWorld == <<72, 101, 108, 108, 111, 44, 32, 87, 111, 114, 108, 100, 33, 10>>

\* hello_world.wat as tests::decode_hello_world decodes it: _start builds the
\* iovec (0, 14) at 16 and calls fd_write(1, 16, 1, 24)
hello_world ==
    ModuleWithData(
        <<ExternalFuncInst("wasi_snapshot_preview1", "fd_write",
                           <<i32, i32, i32, i32>>, <<i32>>),
          InternalFuncInst(<<>>, <<i32>>, <<i32>>,
                           <<I32Const(16), I32Const(0), I32Store(2, 0),
                             I32Const(20), I32Const(14), I32Store(2, 0),
                             I32Const(16), LocalSet(0), I32Const(1), LocalGet(0),
                             I32Const(1), I32Const(24), CallI(0), End>>)>>,
        Export("_start", 1), <<Memory(1)>>, <<Data(0, 0, HelloWorld)>>, {<<>>})

\* A module that exports the imported fd_write itself, so that the host
\* calls it with arguments of its choice.  The memory holds the text at 0,
\* the iovec (0, 14) at 16 and the iovec (7, 5) at 24.
fd_write_args ==
    {<<I32(1), I32(16), I32(1), I32(32)>>,
     <<I32(1), I32(16), I32(2), I32(32)>>,
     <<I32(2), I32(24), I32(1), I32(0)>>,
     <<I32(1), I32(16), I32(0), I32(8)>>,
     <<I32(1), I32(16), I32(-1), I32(32)>>,
     <<I32(0), I32(16), I32(1), I32(PAGE_SIZE - 4)>>,
     <<I32(1), I32(16), I32(1), I32(PAGE_SIZE - 3)>>,
     <<I32(3), I32(16), I32(1), I32(32)>>,
     <<I32(-1), I32(16), I32(1), I32(32)>>,
     <<I32(1), I32(PAGE_SIZE - 4), I32(1), I32(32)>>,
     <<I32(1), I32(16), I32(1)>>,
     <<I32(1), I32(16), I32(1), I64(32)>>}

fd_write_wat ==
    ModuleWithData(
        <<ExternalFuncInst("wasi_snapshot_preview1", "fd_write",
                           <<i32, i32, i32, i32>>, <<i32>>)>>,
        Export("fd_write", 0), <<Memory(1)>>,
        <<Data(0, 0, HelloWorld),
          Data(0, 16, <<0, 0, 0, 0, 14, 0, 0, 0, 7, 0, 0, 0, 5, 0, 0, 0>>)>>,
        fd_write_args)

\* memory.wat of test::init_memory: one page, "hello" at 0 and "world" at 5
memory_wat ==
    ModuleWithData(<<>>, NoExports, <<Memory(1)>>,
                   <<Data(0, 0, <<104, 101, 108, 108, 111>>),
                     Data(0, 5, <<119, 111, 114, 108, 100>>)>>,
                   {<<>>})

\* Modules of a memory section and up to MaxData data segments: memories of
\* 0, 1, 2 and 65536 pages, segments that overlap, that hold zero bytes, that
\* end at the end of the first page or one byte after it, that are empty,
\* that name a memory that is not there and that have a negative offset
MemorySections == {<<>>, <<Memory(0)>>, <<Memory(1)>>, <<Memory(2)>>, <<Memory(PAGE_SIZE)>>}

Segments ==
    {Data(0, 0, <<1, 2, 3>>), Data(0, 2, <<9>>), Data(0, 1, <<0, 0>>),
     Data(0, PAGE_SIZE - 2, <<7, 8>>), Data(0, PAGE_SIZE - 1, <<7, 8>>),
     Data(0, 0, <<>>), Data(1, 0, <<5>>), Data(0, -1, <<6>>), Data(0, -2, <<6>>)}

DataModules ==
    {ModuleWithData(<<>>, NoExports, mems, data, {<<>>}) :
        mems \in MemorySections,
        data \in UNION {[1..k -> Segments] : k \in 0..MaxData}}

Fixtures ==
    {func_add, func_sub, func_lts, func_call, i32_const, local_set, i32_store,
     fib, func_param_result, store_twice, if_store, nested_return,
     memory_only, empty_module, bad_export, memory_wat, import_two,
     hello_world, fd_write_wat,
     import_wat(Export("call_add", 1)),
     import_wat([n \in {"call_add", "add"} |-> IF n = "add" THEN 0 ELSE 1]),
     store_at(0, <<Memory(1)>>), store_at(4, <<Memory(1)>>),
     store_at(0, <<>>)}

Modules == Fixtures \cup GeneratedModules \cup DataModules

\* the name of tests::not_found_export_function
UnknownName == "fooooo"

-----------------------------------------------------------------------------
(* The state before Runtime::instantiate *)

NoImports == [m \in {} |-> 0]

\* the module m is decoded and no Runtime is built from it yet
decoded(m) ==
    /\ wasm = <<>>
    /\ wasm_module = m
    /\ funcs = <<>>
    /\ exports = NoExports
    /\ memories = <<>>
    /\ inputs = m.inputs
    /\ import = NoImports
    /\ wasi = NoWasi
    /\ stack = <<>>
    /\ call_stack = <<>>
    /\ phase = "decoded"
    /\ cur = NoCall
    /\ ret = NoRet
    /\ calls = 0

Init == \E m \in Modules : decoded(m)

\* what no step of a call changes
store_vars == <<wasm, wasm_module, funcs, exports, inputs>>

\* Store::new, the data section: the segments from the k-th on are copied
\* into mems in the order of their declaration.  The offset is an i32 and
\* `data.offset as usize` extends its sign: with a negative offset the sum
\* offset + init.len() overflows when init.len() >= -offset (ovf: a build
\* with overflow checks panics there), and where it wraps the range
\* data[offset..offset + init.len()] starts after its end and the slice
\* panics; with a shorter init the sum is beyond every memory.
RECURSIVE init_data(_, _, _)
init_data(mems, data, k) ==
    IF k > Len(data) THEN [st |-> "ok", msg |-> "", ovf |-> FALSE, memories |-> mems]
    ELSE LET d == data[k]
             too_large(ovf) ==
                 [st |-> "err", msg |-> "data is too large to fit in memory",
                  ovf |-> ovf, memories |-> mems]
         IN  IF d.memory_index >= Len(mems)
             THEN [st |-> "err", msg |-> "not found memory", ovf |-> FALSE,
                   memories |-> mems]
             ELSE IF d.offset < 0
             THEN IF Len(d.init) < -d.offset THEN too_large(FALSE)
                  ELSE IF d.offset + Len(d.init) > mems[d.memory_index + 1].len
                  THEN too_large(TRUE)
                  ELSE [st |-> "panic", msg |-> "", ovf |-> TRUE, memories |-> mems]
             ELSE IF Len(d.init) > mems[d.memory_index + 1].len - d.offset
             THEN too_large(FALSE)
             ELSE init_data([mems EXCEPT ![d.memory_index + 1] =
                                 mem_write(@, d.offset, d.init)], data, k + 1)

\* Store::new, the lookup of a function's type: module.type_section and
\* func_types.get(type_idx)
func_type(m, type_idx) ==
    IF ~m.type_section.some
    THEN [st |-> "err", msg |-> "not found type_section", type |-> FuncType(<<>>, <<>>)]
    ELSE IF type_idx >= Len(m.type_section.v)
    THEN [st |-> "err", msg |-> "not found func type in type_section",
          type |-> FuncType(<<>>, <<>>)]
    ELSE [st |-> "ok", msg |-> "", type |-> m.type_section.v[type_idx + 1]]

\* Store::new, the imports from the k-th on: one External per import
RECURSIVE import_funcs(_, _, _)
import_funcs(m, k, acc) ==
    IF k > Len(m.import_section.v) THEN [st |-> "ok", msg |-> "", funcs |-> acc]
    ELSE LET i == m.import_section.v[k]
             t == func_type(m, i.desc)
         IN  IF t.st = "err" THEN [st |-> "err", msg |-> t.msg, funcs |-> acc]
             ELSE import_funcs(m, k + 1,
                      Append(acc, ExternalFuncInst(i.module, i.field,
                                                   t.type.params, t.type.results)))

\* the declared locals, each group repeated type_count times
RECURSIVE flatten_locals(_)
flatten_locals(groups) ==
    IF groups = <<>> THEN <<>>
    ELSE [k \in 1..Head(groups).type_count |-> Head(groups).value_type]
             \o flatten_locals(Tail(groups))

\* Store::new, code_section.iter().zip(func_type_idxs) from the k-th pair
\* on: one Internal per pair, the longer of the two sections is cut
RECURSIVE code_funcs(_, _, _)
code_funcs(m, k, acc) ==
    IF k > Len(m.code_section.v) \/ k > Len(m.function_section.v)
    THEN [st |-> "ok", msg |-> "", funcs |-> acc]
    ELSE LET func_body == m.code_section.v[k]
             t == func_type(m, m.function_section.v[k])
         IN  IF t.st = "err" THEN [st |-> "err", msg |-> t.msg, funcs |-> acc]
             ELSE code_funcs(m, k + 1,
                      Append(acc, InternalFuncInst(t.type.params, t.type.results,
                                                   flatten_locals(func_body.locals),
                                                   func_body.code)))

\* a function table with the defined functions before the imports
store_funcs_defined_first(m) ==
    LET r == code_funcs(m, 1, <<>>)
    IN  IF r.st = "err" THEN r ELSE import_funcs(m, 1, r.funcs)

\* Store::new, the function table
store_funcs(m) ==
    LET r == import_funcs(m, 1, <<>>)
    IN  IF r.st = "err" THEN r ELSE code_funcs(m, 1, r.funcs)

\* an export table that keeps the first export of a name (entry().or_insert)
store_exports_first_wins(m) ==
    LET es == m.export_section.v
        first(n) == CHOOSE k \in 1..Len(es) :
                        /\ es[k].name = n
                        /\ \A j \in 1..(k - 1) : es[j].name # n
    IN  [n \in {es[k].name : k \in 1..Len(es)} |-> es[first(n)].desc]


\* Store::new, exports.insert(name, export_inst) for each export in the
\* order of the section: the last export of a name is the one kept
store_exports(m) ==
    LET es == m.export_section.v
        last(n) == CHOOSE k \in 1..Len(es) :
                       /\ es[k].name = n
                       /\ \A j \in (k + 1)..Len(es) : es[j].name # n
    IN  [n \in {es[k].name : k \in 1..Len(es)} |-> es[last(n)].desc]

\* Store::new: ovf tells that a memory's length or the end of a data
\* segment overflowed
Store_new(m) ==
    LET f == store_funcs(m)
        mems == [i \in 1..Len(m.memory_section.v) |->
                    MemoryInst(m.memory_section.v[i].min)]
        r == init_data(mems, m.data_section.v, 1)
    IN  IF f.st = "err"
        THEN [st |-> "err", msg |-> f.msg, ovf |-> FALSE,
              funcs |-> <<>>, exports |-> NoExports, memories |-> <<>>]
        ELSE [st |-> r.st, msg |-> r.msg,
              ovf |-> \/ r.ovf
                      \/ \E i \in 1..Len(m.memory_section.v) :
                            memory_overflows(m.memory_section.v[i].min),
              funcs |-> f.funcs, exports |-> store_exports(m),
              memories |-> r.memories]

-----------------------------------------------------------------------------
(* Runtime::add_import.  Only a module that imports a function of the       *)
(* module named module_name ever reads the registry under that name, so the *)
(* model registers callables for such modules only.                         *)

ImportModules == {"env"}
ImportFields == {"add", "fooooo"}

add_import(imp, module_name, func_name, callable) ==
    LET old == IF module_name \in DOMAIN imp THEN imp[module_name]
               ELSE [f \in {} |-> ""]
        new == [f \in DOMAIN old \cup {func_name} |->
                   IF f = func_name THEN callable ELSE old[f]]
    IN  [m \in DOMAIN imp \cup {module_name} |->
            IF m = module_name THEN new ELSE imp[m]]

AddImport(module_name, func_name, callable) ==
    /\ phase = "idle"
    /\ \E i \in 1..Len(funcs) :
          funcs[i].kind = "External" /\ funcs[i].module = module_name
    /\ import' = add_import(import, module_name, func_name, callable)
    /\ UNCHANGED <<store_vars, calls, memories, wasi, stack, call_stack, phase, cur, ret>>

-----------------------------------------------------------------------------
(* Runtime::call up to the start of execute *)

\* a lookup that answers an index beyond the table with its last function
funcs_get_last(fs, idx) == IF idx < Len(fs) THEN idx + 1 ELSE Len(fs)

\* store.funcs.get(idx): the position of function idx in funcs, 0 for None
funcs_get(fs, idx) == IF idx < Len(fs) THEN idx + 1 ELSE 0

\* a lookup that answers an unknown name with function 0
export_lookup_first(ex, name) == IF name \in DOMAIN ex THEN ex[name] ELSE 0

\* exports.get(name): the function index, -1 when name is no export
export_lookup(ex, name) == IF name \in DOMAIN ex THEN ex[name] ELSE -1

Panic ==
    /\ phase' = "panicked"
    /\ ret' = Panicked
    /\ UNCHANGED <<store_vars, calls, memories, import, wasi, stack, call_stack, cur>>

\* Module::new, the first half of Runtime::instantiate: the bytes are decoded,
\* a nom error becomes the error "failed to parse wasm: .."
ModuleNew ==
    /\ phase = "image"
    /\ LET r == decode(wasm) IN
       IF r.st = "panic" THEN Panic
       ELSE IF r.st = "err"
       THEN /\ phase' = "failed"
            /\ ret' = Err("failed to parse wasm", "")
            /\ UNCHANGED <<store_vars, calls, memories, import, wasi, stack,
                           call_stack, cur>>
       ELSE /\ wasm_module' = r.v
            /\ phase' = "decoded"
            /\ UNCHANGED <<wasm, funcs, exports, inputs, calls, memories, import, wasi,
                           stack, call_stack, cur, ret>>

\* Runtime::instantiate and Runtime::instantiate_with_wasi: the Store of the
\* module, empty stacks, no imports, and the shim w
Built(s, w) ==
    IF s.st = "panic" THEN Panic
    ELSE IF s.st = "err"
    THEN /\ phase' = "failed"
         /\ ret' = Err(s.msg, "")
         /\ UNCHANGED <<store_vars, calls, memories, import, wasi, stack, call_stack, cur>>
    ELSE /\ funcs' = s.funcs
         /\ exports' = s.exports
         /\ memories' = s.memories
         /\ phase' = "idle"
         /\ wasi' = w
         /\ UNCHANGED <<wasm, wasm_module, inputs, calls, import, stack, call_stack,
                        cur, ret>>

\* The host chooses between instantiate and instantiate_with_wasi; the shim
\* is read only by a module that imports from wasi_snapshot_preview1, so the
\* model makes the choice for such modules only.
Instantiate ==
    /\ phase = "decoded"
    /\ \E w \in {NoWasi, WasiSnapshotPreview1} :
          /\ w = NoWasi
                \/ \E i \in 1..Len(wasm_module.import_section.v) :
                       wasm_module.import_section.v[i].module =
                           "wasi_snapshot_preview1"
          /\ LET s == Store_new(wasm_module) IN
             IF s.ovf THEN Panic \/ Built(s, w) ELSE Built(s, w)

Call(name, args) ==
    /\ phase = "idle"
    /\ calls < MaxCalls
    /\ calls' = calls + 1
    /\ LET idx == export_lookup(exports, name) IN
       IF idx = -1
       THEN /\ ret' = Err("not found export function", "")
            /\ cur' = [NoCall EXCEPT !.name = name, !.args = args]
            /\ UNCHANGED <<store_vars, memories, import, wasi, stack, call_stack, phase>>
       ELSE IF funcs_get(funcs, idx) = 0
       THEN /\ ret' = Err("not found func", "")
            /\ cur' = [NoCall EXCEPT !.name = name, !.args = args]
            /\ UNCHANGED <<store_vars, memories, import, wasi, stack, call_stack, phase>>
       ELSE LET func == funcs[funcs_get(funcs, idx)]
                stk == stack \o args
                c == [name |-> name, args |-> args, arity |-> Len(func.results),
                      target |-> func.kind, base |-> Len(call_stack)]
            IN  IF func.kind = "Internal"
                THEN \* invoke_internal: push_frame, then execute
                     LET pf == push_frame(stk, func) IN
                     IF pf.st = "panic"
                     THEN /\ cur' = c /\ stack' = stk
                          /\ phase' = "panicked" /\ ret' = Panicked
                          /\ UNCHANGED <<store_vars, memories, import, wasi, call_stack>>
                     ELSE /\ cur' = c
                          /\ stack' = pf.stack
                          /\ call_stack' = Append(call_stack, pf.frame)
                          /\ phase' = "executing"
                          /\ ret' = NoRet
                          /\ UNCHANGED <<store_vars, memories, import, wasi>>
                ELSE \* invoke_external: its result is the result of call
                     \E usize_len \in UsizeLens :
                     LET r == invoke_external(stk, func, import, memories, wasi,
                                              usize_len) IN
                     /\ cur' = c
                     /\ stack' = r.stack
                     /\ memories' = r.memories
                     /\ wasi' = r.wasi
                     /\ phase' = IF r.st = "panic" THEN "panicked" ELSE "idle"
                     /\ ret' = IF r.st = "panic" THEN Panicked
                               ELSE IF r.st = "err" THEN Err(r.msg, "")
                               ELSE IF r.has THEN OkSome(r.val) ELSE OkNone
                     /\ UNCHANGED <<store_vars, import, call_stack>>

-----------------------------------------------------------------------------
(* Runtime::execute: one action per instruction of the loop's match.  Every *)
(* action starts with the loop's head: the top frame's pc is incremented    *)
(* and the instruction at it fetched.                                       *)

Top == call_stack[Len(call_stack)]

\* frame.insts.get(frame.pc as usize) after frame.pc += 1
Fetched == Top.insts[Top.pc + 2]

Fetch(op) ==
    /\ phase = "executing"
    /\ call_stack # <<>>
    /\ Top.pc + 1 < Len(Top.insts)
    /\ Fetched.op = op

SetTop(frame) == [call_stack EXCEPT ![Len(call_stack)] = frame]

\* the loop goes on with these stacks
Continue(stk, cs) ==
    /\ stack' = stk
    /\ call_stack' = cs
    /\ UNCHANGED <<store_vars, calls, memories, import, wasi, phase, cur, ret>>

\* a failure whose cleanup also takes back the bytes written to the memories
Fail_rolls_back(cause) ==
    /\ stack' = cleanup.stack
    /\ call_stack' = cleanup.call_stack
    /\ phase' = "idle"
    /\ ret' = Err("failed to execute instructions", cause)
    /\ memories' = [i \in 1..Len(memories) |-> [memories[i] EXCEPT !.bytes = NoBytes]]
    /\ UNCHANGED <<store_vars, calls, import, wasi, cur>>

\* execute returns Err(cause): invoke_internal cleans up and fails
Fail(cause) ==
    /\ stack' = cleanup.stack
    /\ call_stack' = cleanup.call_stack
    /\ phase' = "idle"
    /\ ret' = Err("failed to execute instructions", cause)
    /\ UNCHANGED <<store_vars, calls, memories, import, wasi, cur>>

\* the stack was unwound to u (a result of stack_unwind) and the loop goes on
\* with call stack cs
Unwound(u, cs) ==
    IF u.st = "ok" THEN Continue(u.stack, cs)
    ELSE IF u.st = "err" THEN Fail("not found return value")
    ELSE Panic

StepIf ==
    /\ Fetch("If")
    /\ LET pc == Top.pc + 1 IN
       IF stack = <<>> THEN Fail("not found value in the stack")
       ELSE LET cond == Last(stack)
                stk == Front(stack)
                target == get_end_address(Top.insts, pc)
            IN  IF cond_is_zero(cond) /\ target = -1
                THEN Fail("not found instructions")
                ELSE LET npc == IF cond_is_zero(cond) THEN target ELSE pc IN
                     Continue(stk, SetTop([Top EXCEPT
                         !.pc = npc,
                         !.labels = Append(@, if_label(npc, Len(stk)))]))

StepEnd ==
    /\ Fetch("End")
    /\ IF Top.labels # <<>>
       THEN LET label == Last(Top.labels) IN
            Unwound(stack_unwind(stack, label.sp, label.arity),
                    SetTop([Top EXCEPT !.pc = label.pc,
                                       !.labels = Front(@)]))
       ELSE Unwound(stack_unwind(stack, Top.sp, Top.arity), Front(call_stack))

StepReturn ==
    /\ Fetch("Return")
    /\ Unwound(stack_unwind(stack, Top.sp, Top.arity), Front(call_stack))

StepLocalGet ==
    /\ Fetch("LocalGet")
    /\ LET idx == Fetched.a IN
       IF idx >= Len(Top.locals) THEN Fail("not found local")
       ELSE Continue(Append(stack, Top.locals[idx + 1]),
                     SetTop([Top EXCEPT !.pc = @ + 1]))

StepLocalSet ==
    /\ Fetch("LocalSet")
    /\ LET idx == Fetched.a IN
       IF stack = <<>> THEN Fail("not found value in the stack")
       ELSE IF idx >= Len(Top.locals) THEN Panic
       ELSE Continue(Front(stack),
                     SetTop([Top EXCEPT !.pc = @ + 1,
                                        !.locals[idx + 1] = Last(stack)]))

StepI32Const ==
    /\ Fetch("I32Const")
    /\ Continue(Append(stack, I32(Fetched.a)), SetTop([Top EXCEPT !.pc = @ + 1]))

\* the three binary operators: right is popped first, then left
Binary(r) ==
    IF r.st = "panic" THEN Panic
    ELSE IF r.st = "ok"
    THEN Continue(Append(SubSeq(stack, 1, Len(stack) - 2), r.val),
                  SetTop([Top EXCEPT !.pc = @ + 1]))
    ELSE \/ Panic
         \/ Continue(Append(SubSeq(stack, 1, Len(stack) - 2), r.val),
                     SetTop([Top EXCEPT !.pc = @ + 1]))

StepI32Add ==
    /\ Fetch("I32Add")
    /\ IF Len(stack) < 2 THEN Fail("not found any value in the stack")
       ELSE Binary(value_add(stack[Len(stack) - 1], Last(stack)))

StepI32Sub ==
    /\ Fetch("I32Sub")
    /\ IF Len(stack) < 2 THEN Fail("not found any value in the stack")
       ELSE Binary(value_sub(stack[Len(stack) - 1], Last(stack)))

StepI32LtS ==
    /\ Fetch("I32LtS")
    /\ IF Len(stack) < 2 THEN Fail("not found any value in the stack")
       ELSE Binary(value_lt(stack[Len(stack) - 1], Last(stack)))

\* I32Store's address arithmetic, addr as usize + offset and then + 4, on a
\* 64-bit usize.  A negative addr is 2^64 + addr.  ovf: one of the two
\* additions overflows (a build with overflow checks panics there, one
\* without wraps); bad: the range is beyond every memory, or its start is
\* above its end; at: the start of the range otherwise.
store_range(addr, offset) ==
    IF addr >= 0 THEN [ovf |-> FALSE, bad |-> FALSE, at |-> addr + offset]
    ELSE IF addr + offset >= 0
    THEN [ovf |-> TRUE, bad |-> FALSE, at |-> addr + offset]
    ELSE IF addr + offset + 4 >= 0 THEN [ovf |-> TRUE, bad |-> TRUE, at |-> -1]
    ELSE [ovf |-> FALSE, bad |-> TRUE, at |-> -1]

\* memory.data[at..end].copy_from_slice(&value.to_le_bytes())
store_bytes(m, at, value) == mem_write(m, at, to_le_bytes(value))

\* I32Store after the address arithmetic
StoreAt(r, value) ==
    IF memories = <<>> THEN Fail("not found memory")
    ELSE IF value.ty # "I32" THEN Panic
    ELSE IF r.bad \/ r.at + 4 > memories[1].len THEN Panic
    ELSE /\ memories' = [memories EXCEPT ![1] = store_bytes(@, r.at, value.v)]
         /\ stack' = SubSeq(stack, 1, Len(stack) - 2)
         /\ call_stack' = SetTop([Top EXCEPT !.pc = @ + 1])
         /\ UNCHANGED <<store_vars, calls, import, wasi, phase, cur, ret>>

StepI32Store ==
    /\ Fetch("I32Store")
    /\ IF Len(stack) < 2 THEN Fail("not found any value in the stack")
       ELSE LET value == Last(stack)
                addr == stack[Len(stack) - 1]
            IN  IF addr.ty # "I32" THEN Panic
                ELSE LET r == store_range(addr.v, Fetched.b) IN
                     IF r.ovf THEN Panic \/ StoreAt(r, value)
                     ELSE StoreAt(r, value)

StepCall ==
    /\ Fetch("Call")
    /\ LET idx == Fetched.a
           here == SetTop([Top EXCEPT !.pc = @ + 1])
       IN  IF funcs_get(funcs, idx) = 0 THEN Fail("not found func")
           ELSE LET func == funcs[funcs_get(funcs, idx)] IN
                IF func.kind = "Internal"
                THEN /\ Len(call_stack) < MaxDepth
                     /\ LET pf == push_frame(stack, func) IN
                        IF pf.st = "panic" THEN Panic
                        ELSE Continue(pf.stack, Append(here, pf.frame))
                ELSE \E usize_len \in UsizeLens :
                     LET r == invoke_external(stack, func, import, memories, wasi,
                                              usize_len) IN
                     /\ memories' = r.memories
                     /\ wasi' = r.wasi
                     /\ IF r.st = "panic"
                        THEN /\ phase' = "panicked"
                             /\ ret' = Panicked
                             /\ UNCHANGED <<store_vars, calls, import, stack,
                                            call_stack, cur>>
                        ELSE IF r.st = "err"
                        THEN /\ stack' = cleanup.stack
                             /\ call_stack' = cleanup.call_stack
                             /\ phase' = "idle"
                             /\ ret' = Err("failed to execute instructions", r.msg)
                             /\ UNCHANGED <<store_vars, calls, import, cur>>
                        ELSE /\ stack' = IF r.has THEN Append(r.stack, r.val)
                                         ELSE r.stack
                             /\ call_stack' = here
                             /\ UNCHANGED <<store_vars, calls, import, phase, cur, ret>>

\* The loop breaks, on an empty call stack or on a pc beyond the top frame's
\* instructions, and execute returns Ok(()); invoke_internal then pops the
\* result when the function's type has one.
ExecuteBreak ==
    /\ phase = "executing"
    /\ IF call_stack = <<>> THEN call_stack' = call_stack
       ELSE /\ Top.pc + 1 >= Len(Top.insts)
            /\ call_stack' = SetTop([Top EXCEPT !.pc = @ + 1])
    /\ IF cur.arity > 0
       THEN IF stack = <<>>
            THEN /\ ret' = Err("not found return value", "")
                 /\ stack' = stack
            ELSE /\ ret' = OkSome(Last(stack))
                 /\ stack' = Front(stack)
       ELSE /\ ret' = OkNone
            /\ stack' = stack
    /\ phase' = "idle"
    /\ UNCHANGED <<store_vars, calls, memories, import, wasi, cur>>

-----------------------------------------------------------------------------

Next ==
    \/ Instantiate
    \/ \E name \in DOMAIN exports \cup {UnknownName}, args \in inputs :
           Call(name, args)
    \/ \E m \in ImportModules, f \in ImportFields, c \in Callables :
           AddImport(m, f, c)
    \/ StepIf
    \/ StepEnd
    \/ StepReturn
    \/ StepLocalGet
    \/ StepLocalSet
    \/ StepI32Store
    \/ StepI32Const
    \/ StepI32Add
    \/ StepI32Sub
    \/ StepI32LtS
    \/ StepCall
    \/ ExecuteBreak

Spec == Init /\ [][Next]_vars

-----------------------------------------------------------------------------
(* The runtime of tests::fib: fib.wat called with 1 .. MaxFib.  Its Next    *)
(* has the actions of the instructions fib.wat can reach (its two End are   *)
(* behind a Return or jumped over).  Once call has entered execute the loop *)
(* runs without waiting for anything, hence the weak fairness of its steps. *)

fib_inputs == [fib EXCEPT !.inputs = {<<I32(n)>> : n \in 1..MaxFib}]

FibInit == decoded(fib_inputs)

FibRun ==
    \/ StepIf
    \/ StepReturn
    \/ StepLocalGet
    \/ StepI32Const
    \/ StepI32Add
    \/ StepI32Sub
    \/ StepI32LtS
    \/ StepCall
    \/ ExecuteBreak

FibNext ==
    \/ Instantiate
    \/ \E name \in DOMAIN exports \cup {UnknownName}, args \in inputs :
           Call(name, args)
    \/ StepIf
    \/ StepReturn
    \/ StepLocalGet
    \/ StepI32Const
    \/ StepI32Add
    \/ StepI32Sub
    \/ StepI32LtS
    \/ StepCall
    \/ ExecuteBreak

FibSpec == FibInit /\ [][FibNext]_vars /\ WF_vars(FibRun)

-----------------------------------------------------------------------------
(* The runtime on the modules that import a function: the host registers    *)
(* callables, instantiates with or without the WASI shim and calls the      *)
(* exports.  The actions are those of the instructions these modules hold.  *)

HostModules ==
    {import_wat(Export("call_add", 1)),
     import_wat([n \in {"call_add", "add"} |-> IF n = "add" THEN 0 ELSE 1]),
     import_two, hello_world, fd_write_wat}

HostInit == \E m \in HostModules : decoded(m)

HostNext ==
    \/ Instantiate
    \/ \E name \in DOMAIN exports \cup {UnknownName}, args \in inputs :
           Call(name, args)
    \/ \E m \in ImportModules, f \in ImportFields, c \in Callables :
           AddImport(m, f, c)
    \/ StepEnd
    \/ StepLocalGet
    \/ StepLocalSet
    \/ StepI32Store
    \/ StepI32Const
    \/ StepCall
    \/ ExecuteBreak

HostSpec == HostInit /\ [][HostNext]_vars

-----------------------------------------------------------------------------
(* Notions the properties below are stated with *)

\* call has returned to the host from an exported internal function
Returned == phase = "idle" /\ cur.target = "Internal" /\ ret.kind \in {"ok", "err"}

\* this step is a call of call
CallStep == phase = "idle" /\ calls' = calls + 1

\* the loop is about to fetch an instruction op from the top frame
AtInst(op) == Fetch(op)

\* the step neither failed nor panicked: the loop goes on
GoesOn == phase' = "executing"

\* the frame that was on top before the step, as it is after the step
SameFrame == call_stack'[Len(call_stack)]

\* the nesting depth of if blocks after the first k instructions
RECURSIVE nesting(_, _)
nesting(insts, k) ==
    IF k = 0 THEN 0
    ELSE nesting(insts, k - 1)
         + (IF insts[k].op = "If" THEN 1 ELSE IF insts[k].op = "End" THEN -1 ELSE 0)

\* a well-formed body: balanced if ... end blocks, then the function's End
WellFormedBody(insts) ==
    /\ insts # <<>>
    /\ \A k \in 0..(Len(insts) - 1) : nesting(insts, k) >= 0
    /\ nesting(insts, Len(insts)) = -1

\* i32::from_le_bytes of the four bytes of m at a..a+3
read_i32(m, a) ==
    LET b3 == mem_read(m, a + 3) IN
    mem_read(m, a) + 256 * mem_read(m, a + 1) + 65536 * mem_read(m, a + 2)
    + 16777216 * (IF b3 >= 128 THEN b3 - 256 ELSE b3)

\* every byte of m2 outside a..a+3 is the byte of m, and the length is the same
SameOutside(m, m2, a) ==
    /\ m2.len = m.len
    /\ \A x \in (DOMAIN m.bytes \cup DOMAIN m2.bytes) \ (a..(a + 3)) :
          mem_read(m2, x) = mem_read(m, x)

-----------------------------------------------------------------------------
(* C1: after call on an exported internal function returns, with any        *)
(* arguments and whether it succeeded or failed, the operand stack is       *)
(* empty.  Stated for the calls that left no frame on the call stack, so    *)
(* that what is found on the operand stack is not what a frame that was     *)
(* never popped has kept there.                                             *)
C1_StackEmptyAfterCall == (Returned /\ call_stack = <<>>) => stack = <<>>

(* C2: when call returns, on the success path and on the failure path, the  *)
(* operand stack and the call stack are both empty: no frame of the         *)
(* finished invocation is left.                                             *)
C2_BothStacksClearedAfterCall == Returned => (call_stack = <<>> /\ stack = <<>>)

\* the part of C2 about the call stack alone
C2_NoFrameRemains == Returned => call_stack = <<>>

(* C3: a call that fails with an error raised inside execute returns with   *)
(* both stacks empty, so the next call starts from the state of a runtime   *)
(* with empty stacks and the same memory.                                   *)
C3_ExecuteErrorClearsStacks ==
    (phase = "idle" /\ ret.kind = "err" /\ ret.msg = "failed to execute instructions")
        => (stack = <<>> /\ call_stack = <<>>)

\* a call failed inside execute, in its Call of an import that is not registered
\* under its field name, and left nothing behind
C3_Witness ==
    /\ phase = "idle"
    /\ ret = Err("failed to execute instructions", "not found function")
    /\ cur.name = "call_add" /\ cur.args = <<I32(2)>>
    /\ stack = <<>> /\ call_stack = <<>>

(* C4: call with a name that is no key of the export table returns an       *)
(* error and pushes no argument and no frame and changes no memory; so      *)
(* every call on a module without exports is an error.                      *)
C4_UnknownExportFails ==
    [][(CallStep /\ cur'.name \notin DOMAIN exports)
          => /\ phase' = "idle"
             /\ ret'.kind = "err"
             /\ stack' = stack
             /\ call_stack' = call_stack
             /\ memories' = memories]_vars

\* the module with a memory and no export has answered a call with the error
C4_Witness ==
    /\ exports = NoExports /\ funcs = <<>> /\ memories # <<>>
    /\ phase = "idle"
    /\ ret = Err("not found export function", "")
    /\ cur.args = <<I32(1)>>

(* C5: in a well-formed body, when an if block is finished the next         *)
(* instruction fetched is the one after the matching End: an If on a zero   *)
(* condition leaves pc at the matching End, and the End that closes an if   *)
(* block leaves the frame in place with pc at that End.                     *)
C5_PcAfterBlock ==
    [][(phase = "executing" /\ call_stack # <<>> /\ WellFormedBody(Top.insts)
        /\ GoesOn)
          => /\ (AtInst("If") /\ stack # <<>> /\ cond_is_zero(Last(stack)))
                   => SameFrame.pc = get_end_address(Top.insts, Top.pc + 1)
             /\ (AtInst("End") /\ nesting(Top.insts, Top.pc + 1) > 0)
                   => /\ Len(call_stack') = Len(call_stack)
                      /\ SameFrame.pc = Top.pc + 1]_vars

(* C6: an If on the condition I32(0) skips its then-branch with the label   *)
(* stack of its frame as deep after the block as before the If.             *)
C6_ZeroIfKeepsLabelDepth ==
    [][(AtInst("If") /\ stack # <<>> /\ cond_is_zero(Last(stack))
        /\ WellFormedBody(Top.insts) /\ GoesOn)
          => /\ SameFrame.pc = get_end_address(Top.insts, Top.pc + 1)
             /\ Len(SameFrame.labels) = Len(Top.labels)]_vars

(* C7: a Return that succeeds, under any number of open if blocks, pops the *)
(* frame with all its labels, truncates the operand stack to the frame's sp *)
(* and keeps the result on it when arity > 0; the frames below are as they  *)
(* were, and the caller, when this call has one, is at its Call with its    *)
(* labels, so that it goes on with the instruction after that Call.         *)
C7_ReturnUnwindsFrame ==
    [][(AtInst("Return") /\ GoesOn)
          => /\ call_stack' = Front(call_stack)
             /\ stack' = SubSeq(stack, 1, Top.sp)
                          \o (IF Top.arity > 0 THEN <<Last(stack)>> ELSE <<>>)
             /\ Len(call_stack) > cur.base + 1
                   => LET caller == call_stack[Len(call_stack) - 1] IN
                      /\ caller.insts[caller.pc + 1].op = "Call"
                      /\ call_stack'[Len(call_stack')] = caller]_vars

\* "outer" of nested_return, with an operand and an open if block of its own,
\* is back at its Call (position 5) after "inner" returned 7 from inside two
\* nested if blocks with 5 and 7 above its sp
C7_Witness ==
    /\ phase = "executing"
    /\ cur.name = "outer" /\ cur.args = <<I32(1), I32(1)>> /\ cur.base = 0
    /\ Len(call_stack) = 1
    /\ Top.pc = 5
    /\ Len(Top.labels) = 1
    /\ stack = <<I32(3), I32(7)>>

(* C8: a function that returns normally, by an End outside every block or   *)
(* by a Return, leaves exactly as many values above its frame's sp as its   *)
(* type has results.                                                        *)
C8_ExactlyArityResults ==
    [][((AtInst("Return") \/ (AtInst("End") /\ Top.labels = <<>>)) /\ GoesOn)
          => Len(stack') = Top.sp + Top.arity]_vars

(* C9: an I32Store that succeeds, with addr under value on the stack,       *)
(* leaves the little-endian bytes of value at addr + offset .. addr +       *)
(* offset + 3 of memory 0 and changes no other byte, nor the length, nor    *)
(* the number of memories.                                                  *)
C9_StoreWritesFourBytes ==
    [][(AtInst("I32Store") /\ GoesOn)
          => LET value == Last(stack)
                 addr == stack[Len(stack) - 1]
                 at == addr.v + Fetched.b
             IN  /\ Len(memories') = Len(memories)
                 /\ read_i32(memories'[1], at) = value.v
                 /\ \A i \in 1..4 :
                        mem_read(memories'[1], at + i - 1) = to_le_bytes(value.v)[i]
                 /\ SameOutside(memories[1], memories'[1], at)]_vars

\* store_at has written 0x01020304 to the last four bytes of the memory, and
\* the -2 that an earlier call wrote at 0 is still there
C9_Witness ==
    /\ cur.name = "store_at" /\ cur.args = <<I32(PAGE_SIZE - 4), I32(Word)>>
    /\ phase = "idle" /\ ret = OkNone
    /\ memories # <<>>
    /\ memories[1].len = PAGE_SIZE
    /\ mem_read(memories[1], PAGE_SIZE - 4) = 4
    /\ mem_read(memories[1], PAGE_SIZE - 3) = 3
    /\ mem_read(memories[1], PAGE_SIZE - 2) = 2
    /\ mem_read(memories[1], PAGE_SIZE - 1) = 1
    /\ read_i32(memories[1], 0) = -2
    /\ DOMAIN memories[1].bytes = (0..3) \cup ((PAGE_SIZE - 4)..(PAGE_SIZE - 1))

(* C10: an I32Store of an i32 at an i32 address, in a module with a memory: *)
(* when addr >= 0 and addr + offset + 4 is at most the memory's length the  *)
(* store succeeds and the bytes are written; otherwise call returns an      *)
(* error with both stacks cleared and the memory as it was.                 *)
C10_StoreBounds ==
    [][(AtInst("I32Store") /\ Len(stack) >= 2 /\ memories # <<>>
        /\ Last(stack).ty = "I32" /\ stack[Len(stack) - 1].ty = "I32")
          => LET value == Last(stack)
                 addr == stack[Len(stack) - 1]
                 at == addr.v + Fetched.b
             IN  IF addr.v >= 0 /\ at + 4 <= memories[1].len
                 THEN /\ GoesOn
                      /\ read_i32(memories'[1], at) = value.v
                 ELSE /\ phase' = "idle"
                      /\ ret'.kind = "err"
                      /\ stack' = <<>>
                      /\ call_stack' = <<>>
                      /\ memories' = memories]_vars

\* the half of C10 that is about the stores in range
C10_StoreInRangeSucceeds ==
    [][(AtInst("I32Store") /\ Len(stack) >= 2 /\ memories # <<>>
        /\ Last(stack).ty = "I32" /\ stack[Len(stack) - 1].ty = "I32"
        /\ stack[Len(stack) - 1].v >= 0
        /\ stack[Len(stack) - 1].v + Fetched.b + 4 <= memories[1].len)
          => /\ GoesOn
             /\ read_i32(memories'[1], stack[Len(stack) - 1].v + Fetched.b)
                    = Last(stack).v]_vars

-----------------------------------------------------------------------------
(* Two's complement arithmetic on the four bytes of an i32, to state what   *)
(* wrap-around is without the operators the model computes it with          *)

\* i32::from_le_bytes
from_le_bytes(bs) ==
    bs[1] + 256 * bs[2] + 65536 * bs[3]
    + 16777216 * (IF bs[4] >= 128 THEN bs[4] - 256 ELSE bs[4])

\* the low four bytes of x + y + carry, added byte by byte
sum_bytes(x, y, carry) ==
    LET s1 == x[1] + y[1] + carry
        s2 == x[2] + y[2] + (s1 \div 256)
        s3 == x[3] + y[3] + (s2 \div 256)
        s4 == x[4] + y[4] + (s3 \div 256)
    IN  <<s1 % 256, s2 % 256, s3 % 256, s4 % 256>>

\* the bytes of an i32, lowest first
bytes_of(v) ==
    LET w == IF v >= 0 THEN v ELSE (v - I32_MIN)
    IN  <<w % 256, (w \div 256) % 256, (w \div 65536) % 256,
          (w \div 16777216) + (IF v >= 0 THEN 0 ELSE 128)>>

\* a + b and a - b modulo 2^32 as an i32; a - b is a + not(b) + 1
twos_sum(a, b) == from_le_bytes(sum_bytes(bytes_of(a), bytes_of(b), 0))
twos_diff(a, b) ==
    from_le_bytes(sum_bytes(bytes_of(a), [i \in 1..4 |-> 255 - bytes_of(b)[i]], 1))

\* the loop is about to execute the binary operator op on two i32 operands
AtBinary(op) ==
    /\ AtInst(op)
    /\ Len(stack) >= 2
    /\ Last(stack).ty = "I32"
    /\ stack[Len(stack) - 1].ty = "I32"

\* the step replaced the two topmost operands by the i32 v and went on
Pushed(v) == GoesOn /\ stack' = Append(SubSeq(stack, 1, Len(stack) - 2), I32(v))

\* the call of the internal function name with the i32 arguments a, b returned
ReturnedFrom(name, a, b) ==
    Returned /\ cur.name = name /\ cur.args = <<I32(a), I32(b)>>

(* C11: I32Add on the i32 operands left (pushed first) and right replaces   *)
(* them by their sum modulo 2^32, and call("add", [a, b]) on func_add       *)
(* returns that sum, also when a + b leaves the i32 range.                  *)
C11_AddWraps ==
    /\ [][AtBinary("I32Add")
             => Pushed(twos_sum(stack[Len(stack) - 1].v, Last(stack).v))]_vars
    /\ [](\A a, b \in {x[1].v : x \in {y \in inputs : y # <<>>}}
                      \cup {x[2].v : x \in {y \in inputs : Len(y) > 1}} :
              ReturnedFrom("add", a, b) => ret = OkSome(I32(twos_sum(a, b))))
    /\ [](ReturnedFrom("add", 2, 3) => ret = OkSome(I32(5)))
    /\ [](ReturnedFrom("add", 10, 5) => ret = OkSome(I32(15)))
    /\ [](ReturnedFrom("add", 1, 1) => ret = OkSome(I32(2)))

\* add(i32::MAX, 1) has returned i32::MIN
C11_Witness ==
    /\ ReturnedFrom("add", I32_MAX, 1)
    /\ ret = OkSome(I32(I32_MIN))
    /\ stack = <<>>

(* C12: I32Sub on the i32 operands left and right replaces them by          *)
(* left - right modulo 2^32 and the loop goes on, also when left - right    *)
(* leaves the i32 range.                                                    *)
C12_SubWraps ==
    [][AtBinary("I32Sub")
          => Pushed(twos_diff(stack[Len(stack) - 1].v, Last(stack).v))]_vars

\* the part of C12 about the differences inside the i32 range
C12_SubInRange ==
    [][(AtBinary("I32Sub")
        /\ ~sub_overflows(stack[Len(stack) - 1].v, Last(stack).v))
          => Pushed(stack[Len(stack) - 1].v - Last(stack).v)]_vars

(* C13: I32LtS on the i32 operands left (pushed first) and right replaces   *)
(* them by I32(1) when left < right as signed integers and by I32(0)        *)
(* otherwise, and leaves the operands below them as they were.              *)
C13_LtSigned ==
    [][AtBinary("I32LtS")
          => Pushed(IF stack[Len(stack) - 1].v < Last(stack).v THEN 1 ELSE 0)]_vars

\* lts(-1, 0) has returned 1: -1 is below 0 as a signed integer, and the
\* operand pushed first is the left one
C13_Witness ==
    /\ ReturnedFrom("lts", -1, 0)
    /\ ret = OkSome(I32(1))

\* F(n) = 1 for n < 2 and F(n - 2) + F(n - 1) otherwise
RECURSIVE F(_)
F(n) == IF n < 2 THEN 1 ELSE F(n - 2) + F(n - 1)

(* C14: every call("fib", [n]) with n in 1 .. MaxFib, the first call on the *)
(* Runtime or a later one, comes to an end without a panic and returns      *)
(* Some(I32(F(n))): 1, 2, 3, 5, 8, ..., 89.                                 *)
C14_Fib ==
    /\ [](phase # "panicked")
    /\ []((Returned /\ cur.name = "fib") => ret = OkSome(I32(F(cur.args[1].v))))
    /\ []((Returned /\ cur.args = <<I32(5)>>) => ret = OkSome(I32(8)))
    /\ []((Returned /\ cur.args = <<I32(10)>>) => ret = OkSome(I32(89)))
    /\ (phase = "executing") ~> (phase = "idle" /\ ret.kind = "ok")

\* fib(10) has returned 89 as the second call on its Runtime
C14_Witness ==
    /\ calls = 2
    /\ Returned
    /\ cur.name = "fib" /\ cur.args = <<I32(10)>>
    /\ ret = OkSome(I32(89))

\* the loop is about to execute a Call of the function func, with at least
\* as many operands on the stack as func has parameters
AtCallOf(func) ==
    /\ AtInst("Call")
    /\ Fetched.a < Len(funcs)
    /\ func = funcs[Fetched.a + 1]
    /\ Len(stack) >= Len(func.params)

(* C15: call("call_doubler", [x]) on func_call returns Some(I32(x + x)),    *)
(* the sum taken modulo 2^32.  A Call of an internal function takes the     *)
(* arguments off the stack into the first locals of the callee's frame, in  *)
(* the order they were pushed, and leaves the caller at the Call; when the  *)
(* callee returns by its End the caller is on top again, at its Call, with  *)
(* the callee's result pushed on what the Call had left of its stack.       *)
C15_CallDoubler ==
    /\ [](\A x \in {a[1].v : a \in {y \in inputs : y # <<>>}} :
              (Returned /\ cur.name = "call_doubler" /\ cur.args = <<I32(x)>>)
                 => ret = OkSome(I32(twos_sum(x, x))))
    /\ []((Returned /\ cur.name = "call_doubler" /\ cur.args = <<I32(10)>>)
              => ret = OkSome(I32(20)))
    /\ [][\A func \in {funcs[i] : i \in 1..Len(funcs)} :
             (AtCallOf(func) /\ func.kind = "Internal" /\ GoesOn)
                => LET n == Len(func.params)
                       callee == call_stack'[Len(call_stack')]
                   IN  /\ Len(call_stack') = Len(call_stack) + 1
                       /\ stack' = SubSeq(stack, 1, Len(stack) - n)
                       /\ callee.sp = Len(stack) - n
                       /\ SubSeq(callee.locals, 1, n)
                             = SubSeq(stack, Len(stack) - n + 1, Len(stack))
                       /\ callee.pc = -1
                       /\ SameFrame = [Top EXCEPT !.pc = Top.pc + 1]]_vars
    /\ [][(AtInst("End") /\ Top.labels = <<>> /\ GoesOn
           /\ Len(call_stack) > cur.base + 1)
             => LET caller == call_stack[Len(call_stack) - 1] IN
                /\ call_stack' = Front(call_stack)
                /\ caller.insts[caller.pc + 1].op = "Call"
                /\ stack' = SubSeq(stack, 1, Top.sp)
                             \o (IF Top.arity > 0 THEN <<Last(stack)>> ELSE <<>>)]_vars

\* call_doubler(10): $double has returned, the caller is at its Call
\* (position 1) and 20 is all there is on the stack
C15_Witness ==
    /\ phase = "executing"
    /\ cur.name = "call_doubler" /\ cur.args = <<I32(10)>>
    /\ Len(call_stack) = 1
    /\ Top.pc = 1
    /\ stack = <<I32(20)>>

\* the data segments of the decoded module that cover address a of memory i
\* (counted from 1), by their position in the data section
covering(i, a) ==
    {k \in 1..Len(wasm_module.data_section.v) :
        LET d == wasm_module.data_section.v[k] IN
        /\ d.memory_index = i - 1
        /\ d.offset <= a
        /\ a < d.offset + Len(d.init)}

\* the addresses of memory i that some data segment covers
covered(i) ==
    UNION {LET d == wasm_module.data_section.v[k] IN
           IF d.memory_index = i - 1
           THEN d.offset..(d.offset + Len(d.init) - 1) ELSE {} :
               k \in 1..Len(wasm_module.data_section.v)}

\* the byte the data section gives address a of memory i: that of the last
\* segment that covers it, zero when there is none
initial_byte(i, a) ==
    IF covering(i, a) = {} THEN 0
    ELSE LET k == CHOOSE x \in covering(i, a) : \A y \in covering(i, a) : y <= x
             d == wasm_module.data_section.v[k]
         IN  d.init[a - d.offset + 1]

\* instantiate has returned a Runtime and nothing was called on it yet
Instantiated == phase = "idle" /\ calls = 0

\* memory i is as long as the memory section says and holds the bytes of the
\* data section and zeros
MemoryAsDeclared(i) ==
    /\ memories[i].len % PAGE_SIZE = 0
    /\ memories[i].len \div PAGE_SIZE = wasm_module.memory_section.v[i].min
    /\ \A a \in covered(i) \cup DOMAIN memories[i].bytes :
          /\ a < memories[i].len
          /\ mem_read(memories[i], a) = initial_byte(i, a)

(* C20: after a successful instantiation every declared memory is min *     *)
(* 65536 bytes long, every byte that data segments cover is the byte of the *)
(* last segment covering it, and every other byte is zero.                  *)
C20_MemoryInit ==
    Instantiated
        => /\ Len(memories) = Len(wasm_module.memory_section.v)
           /\ \A i \in 1..Len(memories) : MemoryAsDeclared(i)

\* the part of C20 about the memories of less than 65536 pages
C20_MemoryInitBelow4GiB ==
    (Instantiated
     /\ \A i \in 1..Len(wasm_module.memory_section.v) :
           ~memory_overflows(wasm_module.memory_section.v[i].min))
        => /\ Len(memories) = Len(wasm_module.memory_section.v)
           /\ \A i \in 1..Len(memories) : MemoryAsDeclared(i)

\* the callable registered under (module_name, func_name), "" when none is
registered(module_name, func_name) ==
    IF module_name \in DOMAIN import /\ func_name \in DOMAIN import[module_name]
    THEN import[module_name][func_name] ELSE ""

\* the top frame is about to execute a Call of an External function
AtCallOfExternal ==
    /\ AtInst("Call")
    /\ Fetched.a < Len(funcs)
    /\ funcs[Fetched.a + 1].kind = "External"

(* C16: an imported function is resolved at the moment of the call by its    *)
(* (module, field) pair among the callables registered with add_import: the  *)
(* callable registered last under the pair receives the top params.len()     *)
(* operands in the order they were pushed, and its result, when it has one,  *)
(* is pushed in their place; registering a pair again replaces its callable  *)
(* and leaves every other pair alone.  (A function of wasi_snapshot_preview1 *)
(* goes to the WASI shim instead when the runtime has one.)                  *)
C16_ImportResolvedAtCall ==
    /\ [][\A m \in ImportModules, f \in ImportFields, c \in Callables :
            AddImport(m, f, c)
                => /\ registered(m, f)' = c
                   /\ \A m2 \in ImportModules, f2 \in ImportFields :
                         (m2 # m \/ f2 # f)
                             => registered(m2, f2)' = registered(m2, f2)]_vars
    /\ [][(AtCallOfExternal
           /\ ~(wasi.present /\ funcs[Fetched.a + 1].module = "wasi_snapshot_preview1")
           /\ registered(funcs[Fetched.a + 1].module, funcs[Fetched.a + 1].func) # "")
              => LET func == funcs[Fetched.a + 1]
                     n == Len(func.params)
                     args == [i \in 1..n |-> stack[Len(stack) - n + i]]
                     r == host_call(registered(func.module, func.func), args)
                 IN  (Len(stack) >= n /\ r.st = "ok")
                         => /\ phase' = "executing"
                            /\ Len(stack') = Len(stack) - n + (IF r.has THEN 1 ELSE 0)
                            /\ \A i \in 1..(Len(stack) - n) : stack'[i] = stack[i]
                            /\ r.has => Last(stack') = r.val]_vars
    /\ [][(phase = "executing" /\ Returned' /\ cur.name = "call_add" /\ ret'.kind = "ok")
            => /\ registered("env", "add") \in {"double", "first"}
               /\ registered("env", "add") = "double"
                     => ret' = OkSome(I32(twos_sum(cur.args[1].v, cur.args[1].v)))
               /\ registered("env", "add") = "first" => ret' = OkSome(cur.args[1])]_vars

\* the two-parameter import was registered, registered again with another
\* callable, and the call then passed 5 and 3 in this order
C16_Witness ==
    /\ Returned
    /\ calls = 2
    /\ wasm_module = import_two
    /\ cur.args = <<I32(5), I32(3)>>
    /\ registered("env", "add") = "first"
    /\ registered("env", "fooooo") = "none"
    /\ ret = OkSome(I32(5))

(* C17: a Call of an External function for which no callable is registered,  *)
(* or whose callable returns an error, ends the enclosing call with an       *)
(* error, and both the operand stack and the call stack are empty then.      *)
(* (The WASI shim of a runtime that has one stands for the callables of      *)
(* wasi_snapshot_preview1.)                                                  *)
C17_ExternalErrorClearsStacks ==
    [][(AtCallOfExternal
        /\ Len(stack) >= Len(funcs[Fetched.a + 1].params)
        /\ ~(wasi.present /\ funcs[Fetched.a + 1].module = "wasi_snapshot_preview1")
        /\ registered(funcs[Fetched.a + 1].module, funcs[Fetched.a + 1].func)
               \in {"", "fail"})
           => /\ Returned'
              /\ ret'.kind = "err"
              /\ stack' = <<>>
              /\ call_stack' = <<>>]_vars

\* a call failed in a callable that returned an error, after an earlier call
C17_Witness ==
    /\ Returned
    /\ calls = 2
    /\ registered("env", "add") = "fail"
    /\ ret = Err("failed to execute instructions", "host error")
    /\ stack = <<>>
    /\ call_stack = <<>>

\* hello_world was instantiated with the shim (instantiate_with_wasi)
HelloWorldWithWasi == wasm_module = hello_world /\ phase # "decoded" /\ wasi.present

\* the bytes written to the file of descriptor fd
output(fd) == wasi.file_table[fd + 1]

(* C18: _start of hello_world, instantiated with the WASI shim, never        *)
(* panics and returns Some(I32(0)) without error; when the first run has     *)
(* returned, the output of descriptor 1 is exactly the 14 bytes of           *)
(* "Hello, World!\n", and nothing was written to descriptors 0 and 2.  The   *)
(* bytes are written in one step, by the Call of fd_write, after what was    *)
(* written before.  Every step of the run moves the pc of _start forward or  *)
(* ends its frame, so the run comes to its end.                              *)
C18_HelloWorld ==
    /\ [](HelloWorldWithWasi => phase # "panicked")
    /\ []((HelloWorldWithWasi /\ Returned /\ cur.name = "_start")
            => ret = OkSome(I32(0)))
    /\ []((HelloWorldWithWasi /\ Returned /\ cur.name = "_start" /\ calls = 1)
            => wasi.file_table = <<<<>>, HelloWorld, <<>>>>)
    /\ []((HelloWorldWithWasi /\ phase = "executing" /\ calls = 1)
            => wasi.file_table \in {<<<<>>, <<>>, <<>>>>, <<<<>>, HelloWorld, <<>>>>})
    /\ [][(HelloWorldWithWasi /\ wasi' # wasi)
            => /\ AtInst("Call")
               /\ wasi' = [wasi EXCEPT !.file_table[2] = @ \o HelloWorld]]_vars
    /\ [][(HelloWorldWithWasi /\ phase = "executing" /\ phase' = "executing")
            => \/ call_stack' = <<>>
               \/ /\ Len(call_stack') = 1
                  /\ Len(call_stack) = 1
                  /\ call_stack'[1].pc > call_stack[1].pc]_vars

\* the first run of _start has returned and the text is on descriptor 1
C18_Witness ==
    /\ HelloWorldWithWasi
    /\ Returned
    /\ cur.name = "_start"
    /\ calls = 1
    /\ output(1) = HelloWorld
    /\ ret = OkSome(I32(0))
    /\ stack = <<>>
    /\ call_stack = <<>>

\* this step is a successful fd_write of the shim, called by the host through
\* the export of the imported function
DirectFdWrite ==
    /\ CallStep
    /\ wasi.present
    /\ cur'.target = "External"
    /\ cur'.name = "fd_write"
    /\ ret'.kind = "ok"

\* this step is a successful fd_write of the shim, called by a Call
InnerFdWrite ==
    /\ AtCallOfExternal
    /\ wasi.present
    /\ funcs[Fetched.a + 1].module = "wasi_snapshot_preview1"
    /\ funcs[Fetched.a + 1].func = "fd_write"
    /\ Len(stack) >= 4
    /\ GoesOn

\* the count of bytes this step wrote to the file of descriptor fd
written(fd) == Len(wasi'.file_table[fd + 1]) - Len(wasi.file_table[fd + 1])

\* what C19 says of a successful fd_write with arguments args and result
\* result: the count at nwritten_ptr as an i32, no other byte changed, I32(0)
FdWriteEffect(args, result) ==
    /\ read_i32(memories'[1], args[4].v) = written(args[1].v)
    /\ SameOutside(memories[1], memories'[1], args[4].v)
    /\ result = I32(0)

\* the same with size_of::<usize>() bytes at nwritten_ptr: the bytes after
\* the first four are as they were or all zero, as the count is below 2^32
FdWriteEffectUsize(args, result) ==
    LET rp == args[4].v
        m == memories[1]
        m2 == memories'[1]
        high == (rp + 4)..(rp + 7)
    IN  /\ read_i32(m2, rp) = written(args[1].v)
        /\ m2.len = m.len
        /\ \A x \in (DOMAIN m.bytes \cup DOMAIN m2.bytes) \ (rp..(rp + 7)) :
              mem_read(m2, x) = mem_read(m, x)
        /\ \/ \A x \in high : mem_read(m2, x) = mem_read(m, x)
           \/ \A x \in high : mem_read(m2, x) = 0
        /\ result = I32(0)

\* the arguments of the Call at hand: the four operands on top of the stack
top_four == [i \in 1..4 |-> stack[Len(stack) - 4 + i]]

(* C19: a successful fd_write(fd, iovs_ptr, iovs_len, nwritten_ptr) leaves   *)
(* the count of the bytes it wrote as a little-endian i32 in the four bytes  *)
(* at nwritten_ptr, changes no other byte of the memory and returns I32(0).  *)
C19_FdWriteResult ==
    [][/\ DirectFdWrite => FdWriteEffect(cur'.args, ret'.val)
       /\ InnerFdWrite => FdWriteEffect(top_four, Last(stack'))]_vars

\* the part of C19 that holds: the count is at nwritten_ptr, the result is
\* I32(0), and no byte changes outside the size_of::<usize>() bytes written
C19_FdWriteWritesUsize ==
    [][/\ DirectFdWrite => FdWriteEffectUsize(cur'.args, ret'.val)
       /\ InnerFdWrite => FdWriteEffectUsize(top_four, Last(stack'))]_vars

\* segment d does not fit the memories the module declares
OutOfMemory(d) ==
    \/ d.memory_index >= Len(wasm_module.memory_section.v)
    \/ d.offset < 0
    \/ Len(d.init) >
          wasm_module.memory_section.v[d.memory_index + 1].min * PAGE_SIZE - d.offset

\* instantiate was called on a module whose memories are below 65536 pages
\* and one of whose data segments does not fit
InstantiatedOutOfMemory ==
    /\ phase # "decoded"
    /\ \A i \in 1..Len(wasm_module.memory_section.v) :
          ~memory_overflows(wasm_module.memory_section.v[i].min)
    /\ \E k \in 1..Len(wasm_module.data_section.v) :
          OutOfMemory(wasm_module.data_section.v[k])

\* instantiate returned an error and there is no Store
InstantiateFailed ==
    /\ phase = "failed"
    /\ ret.kind = "err"
    /\ funcs = <<>> /\ memories = <<>> /\ exports = NoExports

(* C21: instantiate returns an error, and no Store, whenever a data segment  *)
(* does not satisfy offset + init.len() <= memory length, be it that its     *)
(* offset is negative or that it names a memory that was not declared.       *)
C21_DataOutOfMemoryFails == InstantiatedOutOfMemory => InstantiateFailed

\* the part of C21 about the segments whose offset is not negative
C21_DataBeyondMemoryFails ==
    (InstantiatedOutOfMemory
     /\ \A k \in 1..Len(wasm_module.data_section.v) :
           wasm_module.data_section.v[k].offset >= 0)
        => InstantiateFailed

-----------------------------------------------------------------------------
(* The function table of Store::new on modules given section by section:    *)
(* none, one or two imports, a function section and a code section of       *)
(* different lengths, type indices in and out of the type section, and      *)
(* every function index exported.  The first defined function pushes two    *)
(* values and calls the function `callee`; the second one declares two      *)
(* groups of locals.                                                        *)

table_types ==
    <<FuncType(<<>>, <<i32>>), FuncType(<<i32>>, <<i32>>),
      FuncType(<<i32, i64>>, <<i32>>)>>

table_code(callee) ==
    <<Function(<<>>, <<I32Const(7), I32Const(1), CallI(callee), End>>),
      Function(<<FunctionLocal(2, i32), FunctionLocal(1, i64)>>,
               <<I32Const(11), End>>)>>

table_exports ==
    <<ExportFunc("f0", 0), ExportFunc("f1", 1), ExportFunc("f2", 2),
      ExportFunc("f3", 3)>>

TableImports ==
    {None, Some(<<Import("env", "add", 1)>>),
     Some(<<Import("env", "add", 1), Import("env", "fooooo", 0)>>),
     Some(<<Import("env", "add", 3)>>)}

TableFunctions ==
    {None, Some(<<1>>), Some(<<0, 1>>), Some(<<1, 0, 0>>), Some(<<2, 2>>),
     Some(<<0, 3>>)}

TableCallees == {0, 3, 4}

TableModules ==
    {Sections(types, imports, functions, code, Some(table_exports), None, None,
              {<<>>, <<I32(1)>>, <<I32(5), I64(6)>>}) :
        types \in {Some(table_types)}, imports \in TableImports,
        functions \in TableFunctions,
        code \in {None} \cup {Some(SubSeq(table_code(c), 1, n)) :
                                 c \in TableCallees, n \in 1..2}}
    \cup {Sections(None, imports, functions, Some(table_code(0)),
                   Some(table_exports), None, None, {<<>>}) :
             imports \in {None, Some(<<Import("env", "add", 1)>>)},
             functions \in {None, Some(<<0, 1>>)}}

TableInit == \E m \in TableModules : decoded(m)

TableNext ==
    \/ Instantiate
    \/ \E name \in DOMAIN exports \cup {UnknownName}, args \in inputs :
           Call(name, args)
    \/ \E c \in {"double", "none"} : AddImport("env", "add", c)
    \/ StepEnd
    \/ StepI32Const
    \/ StepCall
    \/ ExecuteBreak

TableSpec == TableInit /\ [][TableNext]_vars

\* the imports and the (function_section, code_section) pairs of the module
imports_of == wasm_module.import_section.v

pairs_of ==
    IF Len(wasm_module.function_section.v) < Len(wasm_module.code_section.v)
    THEN Len(wasm_module.function_section.v) ELSE Len(wasm_module.code_section.v)

\* the number of locals the groups declare, and the type of the k-th of them
RECURSIVE declared_locals(_)
declared_locals(groups) ==
    IF groups = <<>> THEN 0
    ELSE Head(groups).type_count + declared_locals(Tail(groups))

RECURSIVE declared_local(_, _)
declared_local(groups, k) ==
    IF k <= Head(groups).type_count THEN Head(groups).value_type
    ELSE declared_local(Tail(groups), k - Head(groups).type_count)

\* entry i of funcs (counted from 0) is what position i of the sections says
FuncAsDeclared(i) ==
    LET f == funcs[i + 1]
        n == Len(imports_of)
    IN  IF i < n
        THEN LET t == wasm_module.type_section.v[imports_of[i + 1].desc + 1] IN
             /\ f.kind = "External"
             /\ f.module = imports_of[i + 1].module
             /\ f.func = imports_of[i + 1].field
             /\ f.params = t.params /\ f.results = t.results
        ELSE LET t == wasm_module.type_section.v[
                          wasm_module.function_section.v[i - n + 1] + 1]
                 c == wasm_module.code_section.v[i - n + 1]
             IN  /\ f.kind = "Internal"
                 /\ f.body = c.code
                 /\ f.params = t.params /\ f.results = t.results
                 /\ Len(f.locals) = declared_locals(c.locals)
                 /\ \A k \in 1..Len(f.locals) :
                       f.locals[k] = declared_local(c.locals, k)

\* the step resolves the function index i: an import is invoked through the
\* registry under its (module, field) pair, a defined function gets a frame
\* over the code of its pair
Resolves(i, stk) ==
    LET n == Len(imports_of) IN
    IF i < n
    THEN LET imp == imports_of[i + 1] IN
         /\ Len(call_stack') <= Len(call_stack)
         /\ registered(imp.module, imp.field) = ""
               => ret'.kind = "err" /\ phase' = "idle"
         /\ (registered(imp.module, imp.field) = "none" /\ Len(stk) >= Len(funcs[i + 1].params))
               => /\ ret'.kind # "err"
                  /\ Len(stack') = Len(stk) - Len(funcs[i + 1].params)
         /\ (registered(imp.module, imp.field) = "double" /\ Len(stk) >= Len(funcs[i + 1].params)
             /\ funcs[i + 1].params # <<>>)
               => /\ phase' = "executing" => Last(stack') = value_add(Last(stk), Last(stk)).val
                  /\ phase' = "idle" => ret' = OkSome(value_add(Last(stk), Last(stk)).val)
    ELSE phase' = "executing"
             => /\ Len(call_stack') = Len(call_stack) + 1
                /\ call_stack'[Len(call_stack')].insts =
                       wasm_module.code_section.v[i - n + 1].code

(* C22: after instantiation funcs holds one External entry per import, in   *)
(* the order of the import section, followed by one Internal entry per      *)
(* (function_section, code_section) pair in order; a Call(i) and a call of  *)
(* an export Func(i) with i < funcs.len() go to import i when i is less     *)
(* than the number of imports and to the defined function i - (number of    *)
(* imports) otherwise.                                                      *)
C22_FuncTable ==
    /\ [](phase \in {"idle", "executing"}
            => /\ Len(funcs) = Len(imports_of) + pairs_of
               /\ \A i \in 0..(Len(funcs) - 1) : FuncAsDeclared(i))
    /\ [][(AtInst("Call") /\ Fetched.a < Len(funcs) /\ phase' # "panicked")
            => Resolves(Fetched.a, stack)]_vars
    /\ [][\A name \in DOMAIN exports, args \in inputs :
            (Call(name, args) /\ exports[name] < Len(funcs) /\ phase' # "panicked")
                => Resolves(exports[name], stack \o args)]_vars

\* a module of two imports and two pairs: the frame on top runs the code of
\* the second pair, called as function 3 from the first one
C22_Witness ==
    /\ phase = "executing"
    /\ Len(imports_of) = 2
    /\ Len(funcs) = 4
    /\ Len(call_stack) = 2
    /\ call_stack[1].insts[3] = CallI(3)
    /\ call_stack[2].insts = <<I32Const(11), End>>

\* the step enters the internal function func with the operands stk: the
\* frame it pushes and the operand stack it leaves
Enters(func, stk) ==
    LET n == Len(func.params)
        f == call_stack'[Len(call_stack')]
    IN  /\ Len(stk) >= n
        /\ Len(stack') = Len(stk) - n
        /\ \A k \in 1..(Len(stk) - n) : stack'[k] = stk[k]
        /\ Len(f.locals) = n + Len(func.locals)
        /\ \A k \in 1..n : f.locals[k] = stk[Len(stk) - n + k]
        /\ \A k \in 1..Len(func.locals) :
              f.locals[n + k] = [ty |-> func.locals[k], v |-> 0]
        /\ f.sp = Len(stk) - n
        /\ f.pc = -1
        /\ f.labels = <<>>

(* C25: entering an internal function of n parameters, by call or by a      *)
(* Call, takes exactly the top n operands off the stack and makes them the  *)
(* locals 0 .. n-1 in the order they were pushed, appends a zero of the     *)
(* declared type for each flattened declared local, sets sp to the depth of *)
(* the stack without the arguments, pc to -1 and the label stack to empty,  *)
(* and leaves the slots below the arguments as they were.                   *)
C25_FrameEntry ==
    /\ [][(AtInst("Call") /\ Len(call_stack') = Len(call_stack) + 1)
            => /\ funcs[Fetched.a + 1].kind = "Internal"
               /\ Enters(funcs[Fetched.a + 1], stack)]_vars
    /\ [][\A name \in DOMAIN exports, args \in inputs :
            (Call(name, args) /\ Len(call_stack') = Len(call_stack) + 1)
                => /\ funcs[exports[name] + 1].kind = "Internal"
                   /\ Enters(funcs[exports[name] + 1], stack \o args)]_vars

\* the function of two parameters and three declared locals was entered by
\* a Call over a stack of two more values: it has the locals 7, 1, 0, 0 and
\* the i64 zero, and the operands below the arguments are still there
C25_Witness ==
    /\ phase = "executing"
    /\ Len(call_stack) = 2
    /\ call_stack[2].locals = <<I32(7), I32(1), I32(0), I32(0), I64(0)>>
    /\ call_stack[2].sp = 2
    /\ call_stack[2].pc = -1
    /\ stack = <<I32(5), I64(6)>>

\* the loop is at its head with a top frame whose pc, once incremented, is
\* past the end of the frame's instructions
PastTheEnd ==
    /\ phase = "executing"
    /\ call_stack # <<>>
    /\ Top.pc + 1 >= Len(Top.insts)

(* C26: when the incremented pc of the top frame is past the end of its     *)
(* instructions, the loop pops that frame as a return does (the operand     *)
(* stack is cut back to the frame's sp, with the result on top when arity   *)
(* is not 0) and goes on with the caller's frame; the loop ends only on an  *)
(* empty call stack.                                                        *)
C26_PastTheEndPopsFrame ==
    [][PastTheEnd
          => /\ call_stack' = Front(call_stack)
             /\ stack' = SubSeq(stack, 1, Top.sp)
                          \o (IF Top.arity > 0 /\ stack # <<>>
                              THEN <<Last(stack)>> ELSE <<>>)
             /\ phase' = "executing"]_vars

\* the second half of C26 alone: execute returns only with no frame left
C26_LoopEndsOnEmptyCallStack ==
    [][(phase = "executing" /\ phase' = "idle" /\ ret'.kind = "ok")
          => call_stack = <<>>]_vars

\* the instruction the loop is about to execute pops a value the operand
\* stack does not hold
PopsTooMany ==
    /\ phase = "executing"
    /\ call_stack # <<>>
    /\ Top.pc + 1 < Len(Top.insts)
    /\ \/ Fetched.op \in {"If", "LocalSet"} /\ stack = <<>>
       \/ Fetched.op \in {"I32Store", "I32Add", "I32Sub", "I32LtS"} /\ Len(stack) < 2
       \/ Fetched.op = "Return" /\ Top.arity > 0 /\ stack = <<>>
       \/ Fetched.op = "End" /\ Top.labels = <<>> /\ Top.arity > 0 /\ stack = <<>>

\* the Call the loop is about to execute names a function with more
\* parameters than the operand stack holds values
CallPopsTooMany ==
    /\ AtInst("Call")
    /\ Fetched.a < Len(funcs)
    /\ Len(stack) < Len(funcs[Fetched.a + 1].params)

\* the step ends the call with an error and empty stacks
FailsCleared ==
    /\ phase' = "idle"
    /\ ret'.kind = "err"
    /\ stack' = <<>>
    /\ call_stack' = <<>>

(* C27: a step that needs more operand values than the stack holds (If,     *)
(* LocalSet, I32Store, I32Add, I32Sub, I32LtS, the arguments of a Call of   *)
(* an internal or an external function, the result unwound by End or        *)
(* Return) makes call return an error with both stacks cleared; it neither  *)
(* crashes nor goes on.                                                     *)
C27_PopFailureIsError ==
    [][(PopsTooMany \/ CallPopsTooMany) => FailsCleared]_vars

(* C27 without the arguments of a Call: the pops of If, LocalSet, I32Store, *)
(* I32Add, I32Sub, I32LtS, End and Return on a stack that is too short end  *)
(* the call with an error and empty stacks.                                 *)
C27_PopFailureOutsideCallIsError == [][PopsTooMany => FailsCleared]_vars

(* C29: every function index is looked up in funcs before it is used: a     *)
(* Call(idx) with idx >= funcs.len(), and a call of an export whose Func    *)
(* index is >= funcs.len(), return the error "not found func"; no frame is  *)
(* pushed and no host callable is invoked (the WASI shim and the memories   *)
(* are as before).                                                          *)
C29_FuncIndexChecked ==
    /\ [][(AtInst("Call") /\ Fetched.a >= Len(funcs))
            => /\ phase' = "idle"
               /\ ret' = Err("failed to execute instructions", "not found func")
               /\ call_stack' = <<>> /\ stack' = <<>>
               /\ memories' = memories /\ wasi' = wasi]_vars
    /\ [][\A name \in DOMAIN exports, args \in inputs :
            (Call(name, args) /\ exports[name] >= Len(funcs))
                => /\ phase' = "idle"
                   /\ ret' = Err("not found func", "")
                   /\ call_stack' = call_stack /\ stack' = stack
                   /\ memories' = memories /\ wasi' = wasi]_vars

\* a module of three functions, one of which holds a Call(4): the second
\* call on it, of its export of index 3, failed
C29_Witness ==
    /\ phase = "idle"
    /\ Len(funcs) = 3
    /\ calls = 2
    /\ cur.name = "f3"
    /\ ret = Err("not found func", "")
    /\ \E k \in 1..Len(wasm_module.code_section.v) :
          CallI(4) \in {wasm_module.code_section.v[k].code[j] :
                           j \in 1..Len(wasm_module.code_section.v[k].code)}

-----------------------------------------------------------------------------
(* The runtime on functions that read and write locals: an exported         *)
(* function "main" of 0 or 1 parameters and 0 to 2 declared locals, whose   *)
(* body is at most MaxLocalBody instructions among I32Const(42), End and    *)
(* LocalGet(i), LocalSet(i) with indices inside and outside the locals.     *)

MaxLocalBody == 3

LocalAlphabet ==
    {I32Const(42), End} \cup {LocalGet(i) : i \in 0..2} \cup {LocalSet(i) : i \in 0..2}

LocalModules ==
    {Module(<<InternalFuncInst(params, <<i32>>, locals, body)>>, Export("main", 0),
            <<>>, {<<>>, <<I32(7)>>}) :
        params \in {<<>>, <<i32>>},
        locals \in {<<>>, <<i32>>, <<i64, i32>>},
        body \in UNION {[1..k -> LocalAlphabet] : k \in 1..MaxLocalBody}}

LocalInit == \E m \in LocalModules : decoded(m)

LocalNext ==
    \/ Instantiate
    \/ \E name \in DOMAIN exports, args \in inputs : Call(name, args)
    \/ StepLocalGet
    \/ StepLocalSet
    \/ StepI32Const
    \/ StepEnd
    \/ ExecuteBreak

LocalSpec == LocalInit /\ [][LocalNext]_vars

\* LocalGet(i) and LocalSet(i) with i inside the locals of the top frame
LocalAccessInRange ==
    /\ (AtInst("LocalGet") /\ Fetched.a < Len(Top.locals))
          => /\ GoesOn
             /\ stack' = Append(stack, Top.locals[Fetched.a + 1])
             /\ SameFrame.locals = Top.locals
    /\ (AtInst("LocalSet") /\ stack # <<>> /\ Fetched.a < Len(Top.locals))
          => /\ GoesOn
             /\ stack' = Front(stack)
             /\ Len(SameFrame.locals) = Len(Top.locals)
             /\ \A k \in 1..Len(Top.locals) :
                   SameFrame.locals[k] =
                       IF k = Fetched.a + 1 THEN Last(stack) ELSE Top.locals[k]

(* C28: LocalGet(i) pushes locals[i] and leaves the locals as they are;     *)
(* LocalSet(i) pops one value into locals[i] and leaves every other local   *)
(* as it is; with i >= locals.len() both LocalGet(i) and LocalSet(i) make   *)
(* call return an error with the stacks cleared.                            *)
C28_LocalAccess ==
    [][/\ LocalAccessInRange
       /\ (AtInst("LocalGet") /\ Fetched.a >= Len(Top.locals)) => FailsCleared
       /\ (AtInst("LocalSet") /\ stack # <<>> /\ Fetched.a >= Len(Top.locals))
             => FailsCleared]_vars

(* C28 without LocalSet out of range: the accesses in range, and LocalGet   *)
(* out of range, which ends the call with the error "not found local".      *)
C28_LocalAccessButSetOutOfRange ==
    [][/\ LocalAccessInRange
       /\ (AtInst("LocalGet") /\ Fetched.a >= Len(Top.locals))
             => FailsCleared /\ ret'.cause = "not found local"]_vars

-----------------------------------------------------------------------------
(* The runtime on if blocks: an exported function "main" of type () -> ()   *)
(* whose body is at most MaxIfBody instructions among If, End and the       *)
(* constants 0 and 1, so that blocks nest, are left open or are closed once *)
(* too often.                                                               *)

MaxIfBody == 5

IfAlphabet == {If, End, I32Const(0), I32Const(1)}

IfModules ==
    {Module(<<InternalFuncInst(<<>>, <<>>, <<>>, body)>>, Export("main", 0),
            <<>>, {<<>>}) :
        body \in UNION {[1..k -> IfAlphabet] : k \in 1..MaxIfBody}}

IfInit == \E m \in IfModules : decoded(m)

IfNext ==
    \/ Instantiate
    \/ \E name \in DOMAIN exports, args \in inputs : Call(name, args)
    \/ StepIf
    \/ StepEnd
    \/ StepI32Const
    \/ ExecuteBreak

IfSpec == IfInit /\ [][IfNext]_vars

\* how many instructions op there are at the positions lo .. hi of insts
\* (positions count from 0)
count_of(insts, op, lo, hi) ==
    Cardinality({p \in lo..hi : p < Len(insts) /\ insts[p + 1].op = op})

\* the positions e > pc of an End before which every If after pc is closed:
\* as many End as If lie between pc and e
closing_ends(insts, pc) ==
    {e \in (pc + 1)..(Len(insts) - 1) :
        /\ insts[e + 1].op = "End"
        /\ count_of(insts, "If", pc + 1, e - 1) = count_of(insts, "End", pc + 1, e - 1)}

\* the smallest of them, -1 when there is none
matching_end(insts, pc) ==
    IF closing_ends(insts, pc) = {} THEN -1
    ELSE CHOOSE e \in closing_ends(insts, pc) :
             \A x \in closing_ends(insts, pc) : e <= x

(* C30: for every instruction list and every pc, get_end_address(insts, pc) *)
(* is the smallest index e > pc of an End before which every If after pc    *)
(* has been closed by an End after pc, and an error when the list has no    *)
(* such index; so an If on the condition 0 without a matching End fails the *)
(* call, and one with a matching End goes there.                            *)
C30_GetEndAddress ==
    /\ [](\A k \in 1..Len(wasm_module.code_section.v) :
            LET insts == wasm_module.code_section.v[k].code IN
            \A pc \in 0..Len(insts) :
                get_end_address(insts, pc) = matching_end(insts, pc))
    /\ [][(AtInst("If") /\ stack # <<>> /\ cond_is_zero(Last(stack)))
            => IF matching_end(Top.insts, Top.pc + 1) = -1
               THEN /\ FailsCleared
                    /\ ret'.cause = "not found instructions"
               ELSE /\ GoesOn
                    /\ SameFrame.pc = matching_end(Top.insts, Top.pc + 1)]_vars

\* an If on the condition 0 went to the End of its block, over a nested
\* block
C30_Witness ==
    /\ phase = "executing"
    /\ call_stack # <<>>
    /\ Top.insts = <<I32Const(0), If, If, End, End>>
    /\ Top.pc = 4

-----------------------------------------------------------------------------
(* The runtime on bytes: Module::new decodes an image, Store::new builds    *)
(* the Store of the decoded module, the host calls an export or the name    *)
(* "anything".  The images are the 8 bytes of (module), every module of one *)
(* function () -> () whose body is at most MaxCode bytes of CodeBytes,      *)
(* func_add.wat, a module with every kind of section, and images that are   *)
(* cut short or have a section code that is none.                           *)

MaxCode == 3

\* magic and version 1: the image of (module)
simplest_wasm == <<0, 97, 115, 109, 1, 0, 0, 0>>

\* If, its block type 0x40, End, I32Const, a byte 0x7f, the opcodes 0x00
\* (unreachable) and 0x1a (drop) the decoder does not know, Return, and a
\* byte that continues a LEB128 number
CodeBytes == {4, 64, 11, 65, 127, 0, 26, 15, 128}

Codes == UNION {[1..k -> CodeBytes] : k \in 0..MaxCode}

\* (module (func <code>)): type section, function section, and a code
\* section of one body without locals
code_wasm(code) ==
    simplest_wasm \o <<1, 4, 1, 96, 0, 0>> \o <<3, 2, 1, 0>>
        \o <<10, Len(code) + 3, 1, Len(code) + 1, 0>> \o code

\* func_add.wat: (func (export "add") (param i32 i32) (result i32)
\*                 local.get 0  local.get 1  i32.add)
func_add_wasm ==
    simplest_wasm \o <<1, 7, 1, 96, 2, 127, 127, 1, 127>> \o <<3, 2, 1, 0>>
        \o <<7, 7, 1, 3, 97, 100, 100, 0, 0>>
        \o <<10, 9, 1, 7, 0, 32, 0, 32, 1, 106, 11>>

\* a type, an import of env.add, a function with two i32 locals, a memory of
\* one page, a data segment "hi" at 0 and a custom section
sections_wasm ==
    simplest_wasm \o <<1, 6, 1, 96, 1, 127, 1, 127>>
        \o <<2, 11, 1, 3, 101, 110, 118, 3, 97, 100, 100, 0, 0>>
        \o <<3, 2, 1, 0>> \o <<5, 3, 1, 0, 1>>
        \o <<10, 11, 1, 9, 1, 2, 127, 65, 127, 4, 64, 11, 11>>
        \o <<11, 8, 1, 0, 65, 0, 11, 2, 104, 105>> \o <<0, 2, 1, 97>>

MalformedImages ==
    {<<>>, <<0, 97, 115>>, <<0, 97, 115, 109, 1, 0>>, <<1, 97, 115, 109, 1, 0, 0, 0>>,
     simplest_wasm \o <<12, 0>>, simplest_wasm \o <<1, 5, 0>>,
     simplest_wasm \o <<1, 4, 1, 96, 1, 0>>}

Images ==
    {simplest_wasm, func_add_wasm, sections_wasm}
        \cup {code_wasm(code) : code \in Codes} \cup MalformedImages

\* the host holds the bytes; nothing is decoded yet
DecodeInit ==
    /\ wasm \in Images
    /\ wasm_module = default_module
    /\ funcs = <<>>
    /\ exports = NoExports
    /\ memories = <<>>
    /\ inputs = {<<>>, <<I32(2), I32(3)>>}
    /\ import = NoImports
    /\ wasi = NoWasi
    /\ stack = <<>>
    /\ call_stack = <<>>
    /\ phase = "image"
    /\ cur = NoCall
    /\ ret = NoRet
    /\ calls = 0

DecodeNext ==
    \/ ModuleNew
    \/ Instantiate
    \/ \E name \in DOMAIN exports \cup {"anything"}, args \in inputs :
           Call(name, args)
    \/ StepLocalGet
    \/ StepI32Add
    \/ StepEnd
    \/ ExecuteBreak

DecodeSpec == DecodeInit /\ [][DecodeNext]_vars

(* C23: the 8-byte image of (module) decodes to the Module with every       *)
(* section absent (magic and version 1, Module::default()); instantiating   *)
(* it gives a Store with no functions, no memories and no exports, and      *)
(* call("anything", []) on it returns an error.                             *)
C23_SimplestModule ==
    wasm = simplest_wasm
        => /\ phase \notin {"failed", "panicked"}
           /\ phase # "image"
                 => /\ wasm_module = default_module
                    /\ \A sec \in {wasm_module.type_section, wasm_module.import_section,
                                   wasm_module.function_section,
                                   wasm_module.code_section,
                                   wasm_module.export_section,
                                   wasm_module.memory_section,
                                   wasm_module.data_section} : ~sec.some
                    /\ wasm_module.version = 1
           /\ funcs = <<>> /\ memories = <<>> /\ exports = NoExports
           /\ calls > 0 => /\ cur.name = "anything"
                           /\ ret = Err("not found export function", "")

\* (module) was instantiated and "anything" called on it with no arguments
C23_Witness ==
    /\ wasm = simplest_wasm
    /\ phase = "idle"
    /\ calls = 1
    /\ cur.name = "anything"
    /\ cur.args = <<>>
    /\ ret.kind = "err"

\* the first instruction of the body that is not one of End, Return,
\* I32LtS, I32Add, I32Sub has an opcode byte the decoder does not support,
\* or is an If whose block-type byte is not 0x40
UnsupportedCode(code) ==
    \E k \in 1..Len(code) :
        /\ \A j \in 1..(k - 1) : code[j] \in {11, 15, 72, 106, 107}
        /\ \/ code[k] \notin Opcodes
           \/ code[k] = 4 /\ k < Len(code) /\ code[k + 1] # 64

\* the body ends inside an instruction: an If without its block type or an
\* I32Const without (the end of) its number, after instructions without
\* operands
CutShortCode(code) ==
    /\ code # <<>>
    /\ \/ code[Len(code)] \in {4, 65}
          /\ \A j \in 1..(Len(code) - 1) : code[j] \in {11, 15, 72, 106, 107}
       \/ /\ Len(code) >= 2 /\ code[Len(code) - 1] = 65 /\ code[Len(code)] = 128
          /\ \A j \in 1..(Len(code) - 2) : code[j] \in {11, 15, 72, 106, 107}

(* C24: a function body with an opcode byte outside the supported set, or   *)
(* with an If whose block-type byte is not 0x40, fails decoding with an     *)
(* error: Module::new, and with it Runtime::instantiate, returns the decode *)
(* error "failed to parse wasm" and does not crash.                         *)
C24_UnsupportedCodeIsDecodeError ==
    \A code \in Codes :
        (wasm = code_wasm(code) /\ UnsupportedCode(code) /\ phase # "image")
            => /\ phase = "failed"
               /\ ret = Err("failed to parse wasm", "")

(* C24, the bodies the decoder does report: a body that ends inside an      *)
(* instruction makes Module::new return the decode error.                   *)
C24_CutShortCodeIsDecodeError ==
    \A code \in Codes :
        (wasm = code_wasm(code) /\ CutShortCode(code) /\ phase # "image")
            => /\ phase = "failed"
               /\ ret = Err("failed to parse wasm", "")


-----------------------------------------------------------------------------
(* C31: every If that goes on, on a zero condition or not, pushes exactly   *)
(* one label whose pc is the position of that If, whose sp is the depth of  *)
(* the operand stack after the condition was popped and whose arity is 0;   *)
(* an End that goes on in a frame with a label pops the top label, sets pc  *)
(* to the label's pc and truncates the operand stack to the label's sp.     *)
C31_IfLabelAndEnd ==
    [][/\ (AtInst("If") /\ GoesOn)
            => SameFrame.labels =
                   Append(Top.labels, [kind |-> "If", pc |-> Top.pc + 1,
                                       sp |-> Len(stack) - 1, arity |-> 0])
       /\ (AtInst("End") /\ Top.labels # <<>> /\ GoesOn)
            => /\ SameFrame.labels = Front(Top.labels)
               /\ SameFrame.pc = Last(Top.labels).pc
               /\ stack' = SubSeq(stack, 1, Last(Top.labels).sp)]_vars

\* the same with the label's pc as the code records it: the position of the
\* If on a condition that is not zero, the matching End on the condition 0
C31_IfLabelPcAfterIf ==
    [][/\ (AtInst("If") /\ GoesOn)
            => SameFrame.labels =
                   Append(Top.labels, [kind |-> "If", pc |-> SameFrame.pc,
                                       sp |-> Len(stack) - 1, arity |-> 0])
       /\ (AtInst("If") /\ GoesOn /\ ~cond_is_zero(Last(stack)))
            => SameFrame.pc = Top.pc + 1
       /\ (AtInst("End") /\ Top.labels # <<>> /\ GoesOn)
            => /\ SameFrame.labels = Front(Top.labels)
               /\ SameFrame.pc = Last(Top.labels).pc
               /\ stack' = SubSeq(stack, 1, Last(Top.labels).sp)]_vars


-----------------------------------------------------------------------------
(* C32: once the Store is built, no step of any call, successful or not,    *)
(* changes Store.funcs, the export table, the module or the number and the  *)
(* lengths of the memories; the bytes of a memory change only in the step   *)
(* of an I32Store that goes on and in the step of a successful fd_write of  *)
(* the shim.                                                                *)
C32_StoreUnchangedByCalls ==
    [][(phase = "idle" \/ phase = "executing")
          => /\ funcs' = funcs
             /\ exports' = exports
             /\ wasm_module' = wasm_module
             /\ Len(memories') = Len(memories)
             /\ \A i \in 1..Len(memories) : memories'[i].len = memories[i].len
             /\ (memories' # memories
                  => ((AtInst("I32Store") /\ GoesOn)
                      \/ DirectFdWrite
                      \/ InnerFdWrite))]_vars

\* the second call has failed inside execute and the Store has the functions
\* and the export it was built with and a memory of one page that holds bytes
\* the calls stored
C32_Witness ==
    /\ phase = "idle"
    /\ calls = 2
    /\ ret.kind = "err"
    /\ ret.msg = "failed to execute instructions"
    /\ funcs = store_funcs(wasm_module).funcs
    /\ DOMAIN exports = {wasm_module.export_section.v[1].name}
    /\ Len(memories) = 1
    /\ memories[1].len = PAGE_SIZE
    /\ ~wasm_module.data_section.some
    /\ memories[1].bytes # NoBytes

-----------------------------------------------------------------------------
(* C33: the step in which a call fails leaves every byte of the memories as *)
(* it was, so what the I32Store instructions and the fd_write of the failed *)
(* call wrote is in memory after call returned: hello_world without the     *)
(* shim and without a registered fd_write fails at its Call with the iovec  *)
(* (0, 14) it stored at 16 still in memory.                                 *)
C33_FailedCallKeepsWrites ==
    /\ [][(phase' = "idle" /\ ret'.kind = "err" /\ phase \in {"idle", "executing"})
             => memories' = memories]_vars
    /\ []((/\ phase = "idle"
           /\ ret.kind = "err"
           /\ cur.name = "_start"
           /\ wasm_module = hello_world)
             => /\ read_i32(memories[1], 16) = 0
                /\ read_i32(memories[1], 20) = 14)

\* hello_world has failed at its Call of fd_write after its two stores
C33_Witness ==
    /\ phase = "idle"
    /\ wasm_module = hello_world
    /\ cur.name = "_start"
    /\ ret = Err("failed to execute instructions", "not found module")
    /\ read_i32(memories[1], 20) = 14
    /\ stack = <<>> /\ call_stack = <<>>


-----------------------------------------------------------------------------
(* The runtime on export sections: three functions () -> (i32), function k  *)
(* returning 10 + k, and every export section of at most MaxExports exports *)
(* with a name among "a" and "b" and a function index among 0 .. 3, so that *)
(* a name is exported twice or three times and an index names no function.  *)

MaxExports == 3

ExportNames == {"a", "b"}

export_funcs == [k \in 1..3 |-> Function(<<>>, <<I32Const(9 + k), End>>)]

ExportSections ==
    UNION {[1..n -> {ExportFunc(name, idx) : name \in ExportNames, idx \in 0..3}] :
              n \in 0..MaxExports}

ExportModules ==
    {Sections(Some(<<FuncType(<<>>, <<i32>>)>>), None, Some(<<0, 0, 0>>),
              Some(export_funcs), IF es = <<>> THEN None ELSE Some(es),
              None, None, {<<>>}) : es \in ExportSections}

ExportInit == \E m \in ExportModules : decoded(m)

ExportNext ==
    \/ Instantiate
    \/ \E name \in ExportNames, args \in inputs : Call(name, args)
    \/ StepI32Const
    \/ StepEnd
    \/ ExecuteBreak

ExportSpec == ExportInit /\ [][ExportNext]_vars

\* the positions of the exports named name in the export section
exported_at(name) ==
    {k \in 1..Len(wasm_module.export_section.v) :
        wasm_module.export_section.v[k].name = name}

\* the function index of the export named name that comes last in the section
last_export(name) ==
    wasm_module.export_section.v[
        CHOOSE k \in exported_at(name) : \A j \in exported_at(name) : j <= k].desc

(* C34: Store::new succeeds on an export section that lists a name more     *)
(* than once, and call(name) dispatches to the function index of the last   *)
(* export of that name in the section: it returns what that function        *)
(* returns, or "not found func" when that index names no function.          *)
C34_LastExportWins ==
    /\ [][phase = "decoded" => phase' = "idle"]_vars
    /\ [][(CallStep /\ exported_at(cur'.name) # {})
            => IF last_export(cur'.name) < Len(funcs)
               THEN /\ GoesOn
                    /\ Last(call_stack').insts = funcs[last_export(cur'.name) + 1].body
               ELSE ret' = Err("not found func", "")]_vars
    /\ []((phase = "idle" /\ calls > 0 /\ exported_at(cur.name) # {}
           /\ last_export(cur.name) < Len(funcs))
             => ret = OkSome(I32(10 + last_export(cur.name))))

\* "a" is exported three times, as function 2, function 0 and function 1, and
\* call("a") has returned what function 1 returns
C34_Witness ==
    /\ phase = "idle"
    /\ wasm_module.export_section.v =
           <<ExportFunc("a", 2), ExportFunc("a", 0), ExportFunc("a", 1)>>
    /\ cur.name = "a"
    /\ ret = OkSome(I32(11))


-----------------------------------------------------------------------------
(* The runtime on if blocks, with the loop of execute running on: a call    *)
(* that has begun executes its next instruction, or leaves the loop, as     *)
(* long as it can.                                                          *)

IfRun ==
    \/ StepIf
    \/ StepEnd
    \/ StepI32Const
    \/ ExecuteBreak

IfRunSpec == IfInit /\ [][IfNext]_vars /\ WF_vars(IfRun)

(* C35: in a module whose bodies have no Call, every call runs to           *)
(* completion: it never panics and, after finitely many steps of the loop,  *)
(* returns a value or an error to the host, whatever the conditions and     *)
(* the nesting of its if blocks.                                            *)
C35_CallRunsToCompletion ==
    /\ [](phase # "panicked")
    /\ (phase = "executing") ~> (phase = "idle" /\ ret.kind \in {"ok", "err"})

\* the part of C35 about the loop alone: every call comes to an end, by a
\* return to the host or by a panic, so the pc resets of End do not cycle
C35_EveryCallEnds ==
    (phase = "executing") ~> (phase = "idle" \/ phase = "panicked")


-----------------------------------------------------------------------------
(* C36: in a well-formed body the then-branch of an if block entered on a   *)
(* non-zero condition, and what comes after the block, is executed once in  *)
(* an activation: the End that pops the label of such an If (the label's pc *)
(* is the position of an If) does not move the frame's pc back, so no       *)
(* instruction before it is fetched a second time and the loop goes on      *)
(* with the instruction after the block.  On                                *)
(* if_store, call("if_store", [I32(1)]) returns with 42 stored at 0 by the  *)
(* then-branch and 1 stored at 4 by the store after the block.              *)
C36_ThenBranchOnce ==
    /\ [][(/\ AtInst("End")
           /\ WellFormedBody(Top.insts)
           /\ Top.labels # <<>>
           /\ Top.insts[Last(Top.labels).pc + 1].op = "If"
           /\ GoesOn)
             => /\ Len(call_stack') = Len(call_stack)
                /\ SameFrame.pc >= Top.pc + 1]_vars
    /\ []((/\ Returned
           /\ wasm_module = if_store
           /\ cur.args = <<I32(1)>>)
             => /\ ret = OkNone
                /\ read_i32(memories[1], 0) = 42
                /\ read_i32(memories[1], 4) = 1)

\* the part of C36 that holds: the then-branch is executed, and the
\* instructions before the End of the block are not skipped
C36_ThenBranchStored ==
    (Returned /\ wasm_module = if_store /\ cur.args = <<I32(1)>>)
        => (ret = OkNone /\ read_i32(memories[1], 0) = 42)


-----------------------------------------------------------------------------
(* The runtime on callees: "main" pushes 7, 8 and 3 and calls function 1,   *)
(* a function () -> () or (i32) -> (i32) whose body is any list of at most  *)
(* MaxCalleeBody instructions among those that push, pop or return.         *)

MaxCalleeBody == 3

CalleeAlphabet == {End, Return, If, I32Const(5), LocalGet(0), LocalSet(0), I32Add}

caller_body == <<I32Const(7), I32Const(8), I32Const(3), CallI(1), End>>

CalleeModules ==
    {Module(<<InternalFuncInst(<<>>, <<>>, <<>>, caller_body),
              InternalFuncInst(sig[1], sig[2], <<>>, body)>>,
            Export("main", 0), <<>>, {<<>>}) :
        sig \in Signatures,
        body \in UNION {[1..k -> CalleeAlphabet] : k \in 1..MaxCalleeBody}}

CalleeInit == \E m \in CalleeModules : decoded(m)

CalleeNext ==
    \/ Instantiate
    \/ \E name \in DOMAIN exports, args \in inputs : Call(name, args)
    \/ StepIf
    \/ StepEnd
    \/ StepReturn
    \/ StepLocalGet
    \/ StepLocalSet
    \/ StepI32Const
    \/ StepI32Add
    \/ StepCall
    \/ ExecuteBreak

CalleeSpec == CalleeInit /\ [][CalleeNext]_vars

\* the frame on top is the frame of a function called by a Call
InCallee == phase = "executing" /\ Len(call_stack) > cur.base + 1

(* C37: while the frame of a function called by a Call is on top, no step   *)
(* that goes on pops or overwrites an operand below that frame's sp, and    *)
(* when the callee returns, by Return or by an End outside every block, the *)
(* stack is the slots below its sp, as they were, and its results.          *)
C37_CalleeKeepsCallerSlots ==
    [][(InCallee /\ GoesOn)
          => /\ Len(stack) >= Top.sp
             /\ Len(stack') >= Top.sp
             /\ SubSeq(stack', 1, Top.sp) = SubSeq(stack, 1, Top.sp)
             /\ (AtInst("Return") \/ (AtInst("End") /\ Top.labels = <<>>))
                   => Len(stack') = Top.sp + Top.arity]_vars

\* the part of C37 that holds: a callee that returns leaves sp plus its
\* result count operands
C37_DepthAfterReturn ==
    [][(InCallee /\ GoesOn
        /\ (AtInst("Return") \/ (AtInst("End") /\ Top.labels = <<>>)))
          => Len(stack') = Top.sp + Top.arity]_vars

====
